---------------------------- MODULE Spec2Model ----------------------------
(***************************************************************************)
(* Job-posting content-extraction pipeline of the application tracker:     *)
(* the advanced scrape handler (api/scrape-advanced.ts) and the basic      *)
(* scrape-job handler (the second half of scripts/dev-proxy.js).           *)
(*                                                                         *)
(* Strings that the code inspects character by character (hostnames,      *)
(* registry fragments, selectors, tag texts) are sequences of one-char     *)
(* strings.  Page bodies are run-length encoded: a text is a sequence of   *)
(* tokens [k, n, t], each standing for a concrete string (see UnitLen), so *)
(* that lengths up to and beyond the 20000-character bound are computed    *)
(* exactly without enumerating characters.                                 *)
(***************************************************************************)
EXTENDS Integers, Sequences, FiniteSets, TLC

VARIABLES
    pc,         \* position of the request being served
    endpoint,   \* "advanced" (scrape-advanced.ts) or "job" (scrape-job handler)
    req,        \* the inbound request: HTTP method, url, strategy
    targeted,   \* advanced: what targetedScrape returned (Null before / if not run)
    content,    \* advanced: `content` after the strategy switch; job: textContent
    method,     \* advanced: `method`
    fetches,    \* outcomes of the outbound GETs this request issued, in order
    res,        \* the response sent (status 0 = none yet)
    served,     \* number of requests completed so far
    call,       \* a function of the pipeline applied on its own: name, argument, result
    inflight,   \* the invocations of the advanced handler running side by side
    hook,       \* useSupabaseApplications: its React state, the backend, pending calls
    store,      \* localStorage and the copies App and APIServer keep of the list
    analyzer    \* JobAnalyzer.analyzeJobFromUrl: its position and the calls it made

\* the state of the one-request-at-a-time handlers
handlerVars == <<pc, endpoint, req, targeted, content, method, fetches, res, served>>

\* the state of the browser-side components
clientVars == <<hook, store, analyzer>>

vars == <<handlerVars, call, inflight, clientVars>>

-----------------------------------------------------------------------------
(* Character strings *)

\* s[i..] starts with t
HasAt(s, t, i) ==
    /\ i >= 1
    /\ i + Len(t) - 1 <= Len(s)
    /\ \A j \in 1..Len(t) : s[i + j - 1] = t[j]

\* String.prototype.includes
Includes(s, t) == \E i \in 1..(Len(s) + 1) : HasAt(s, t, i)

\* String.prototype.indexOf, 1-based; 0 when absent
IndexOf(s, t) ==
    IF Includes(s, t)
    THEN CHOOSE i \in 1..(Len(s) + 1) :
            HasAt(s, t, i) /\ \A j \in 1..(i - 1) : ~HasAt(s, t, j)
    ELSE 0

\* hostname.replace('www.', ''): removes the first occurrence, wherever it is
StripWww(h) ==
    LET w == <<"w","w","w",".">>
        i == IndexOf(h, w)
    IN  IF i = 0 THEN h
        ELSE SubSeq(h, 1, i - 1) \o SubSeq(h, i + Len(w), Len(h))

UpperCase == <<"A","B","C","D","E","F","G","H","I","J","K","L","M",
               "N","O","P","Q","R","S","T","U","V","W","X","Y","Z">>
LowerCase == <<"a","b","c","d","e","f","g","h","i","j","k","l","m",
               "n","o","p","q","r","s","t","u","v","w","x","y","z">>
Digits    == {"0","1","2","3","4","5","6","7","8","9"}

LowerChar(c) ==
    IF \E i \in 1..26 : UpperCase[i] = c
    THEN LowerCase[CHOOSE i \in 1..26 : UpperCase[i] = c]
    ELSE c

\* String.prototype.toLowerCase; also the `i` flag of the regexes
toLowerCase(s) == [i \in 1..Len(s) |-> LowerChar(s[i])]

\* the character class [a-zA-Z0-9_-]
NameChar(c) ==
    \/ \E i \in 1..26 : UpperCase[i] = c \/ LowerCase[i] = c
    \/ c \in Digits
    \/ c \in {"_", "-"}

\* selector.match(/<mark>([a-zA-Z0-9_-]+)/)[1] for mark "." or "#";
\* the empty string when the selector has no such part
SelectorName(selector, mark) ==
    LET starts == { i \in 1..(Len(selector) - 1) :
                      selector[i] = mark /\ NameChar(selector[i + 1]) }
    IN  IF starts = {} THEN <<>>
        ELSE LET i == CHOOSE x \in starts : \A y \in starts : x <= y
                 e == CHOOSE x \in (i + 1)..Len(selector) :
                        /\ \A y \in (i + 1)..x : NameChar(selector[y])
                        /\ (x = Len(selector) \/ ~NameChar(selector[x + 1]))
             IN  SubSeq(selector, i + 1, e)

-----------------------------------------------------------------------------
(* Static tables of api/scrape-advanced.ts.  removeSelectors are declared  *)
(* in the source but never read by this endpoint, so they are left out.    *)

SPECIALIZED_CONFIGS ==
  <<
    [ domain    |-> <<"j","o","b","s",".","a","p","p","l","e",".","c","o","m">>,
      selectors |-> << <<"#","j","d","p","-","j","o","b","-","d","e","s","c","r","i","p","t","i","o","n">>,
                      <<".","j","o","b","-","d","e","s","c","r","i","p","t","i","o","n","-","c","o","n","t","e","n","t">>,
                      <<".","j","d","-","i","n","f","o">>,
                      <<".","j","o","b","-","s","u","m","m","a","r","y">> >>,
      company   |-> <<"A","p","p","l","e">> ],
    [ domain    |-> <<"c","a","r","e","e","r","s",".","g","o","o","g","l","e",".","c","o","m">>,
      selectors |-> << <<"[","d","a","t","a","-","s","e","c","t","i","o","n","=","\"","d","e","s","c","r","i","p","t","i","o","n","\"","]">>,
                      <<".","j","o","b","-","d","e","s","c","r","i","p","t","i","o","n">>,
                      <<".","g","c","-","j","o","b","-","d","e","t","a","i","l","_","_","c","o","n","t","e","n","t">> >>,
      company   |-> <<"G","o","o","g","l","e">> ],
    [ domain    |-> <<"a","m","a","z","o","n",".","j","o","b","s">>,
      selectors |-> << <<".","j","o","b","-","d","e","t","a","i","l">>,
                      <<".","j","o","b","-","d","e","s","c","r","i","p","t","i","o","n">>,
                      <<"[","d","a","t","a","-","t","e","s","t","=","\"","j","o","b","-","d","e","s","c","r","i","p","t","i","o","n","\"","]">> >>,
      company   |-> <<"A","m","a","z","o","n">> ],
    [ domain    |-> <<"c","a","r","e","e","r","s",".","m","i","c","r","o","s","o","f","t",".","c","o","m">>,
      selectors |-> << <<".","j","o","b","-","d","e","s","c","r","i","p","t","i","o","n","-","c","o","n","t","a","i","n","e","r">>,
                      <<".","j","o","b","-","d","e","t","a","i","l","s">>,
                      <<"[","d","a","t","a","-","a","u","t","o","m","a","t","i","o","n","-","i","d","=","\"","j","o","b","P","o","s","t","i","n","g","D","e","s","c","r","i","p","t","i","o","n","\"","]">> >>,
      company   |-> <<"M","i","c","r","o","s","o","f","t">> ],
    [ domain    |-> <<"j","o","b","s",".","n","e","t","f","l","i","x",".","c","o","m">>,
      selectors |-> << <<".","j","o","b","-","d","e","s","c","r","i","p","t","i","o","n">>,
                      <<".","j","o","b","-","p","o","s","t","i","n","g","-","c","o","n","t","e","n","t">>,
                      <<".","p","o","s","i","t","i","o","n","-","c","o","n","t","e","n","t">> >>,
      company   |-> <<"N","e","t","f","l","i","x">> ],
    [ domain    |-> <<"c","a","r","e","e","r","s",".","m","e","t","a",".","c","o","m">>,
      selectors |-> << <<"[","d","a","t","a","-","t","e","s","t","i","d","=","\"","j","o","b","-","d","e","s","c","r","i","p","t","i","o","n","\"","]">>,
                      <<".","j","o","b","-","d","e","s","c","r","i","p","t","i","o","n">>,
                      <<".","p","o","s","i","t","i","o","n","-","d","e","t","a","i","l","s">> >>,
      company   |-> <<"M","e","t","a">> ],
    [ domain    |-> <<"j","o","b","s",".","l","e","v","e","r",".","c","o">>,
      selectors |-> << <<".","s","e","c","t","i","o","n","-","w","r","a","p","p","e","r">>,
                      <<".","j","o","b","-","d","e","s","c","r","i","p","t","i","o","n">>,
                      <<".","c","o","n","t","e","n","t">> >>,
      company   |-> <<"V","a","r","i","o","u","s"," ","(","L","e","v","e","r",")">> ],
    [ domain    |-> <<"b","o","a","r","d","s",".","g","r","e","e","n","h","o","u","s","e",".","i","o">>,
      selectors |-> << <<".","j","o","b","-","p","o","s","t","-","c","o","n","t","e","n","t">>,
                      <<".","a","p","p","l","i","c","a","t","i","o","n","-","d","e","t","a","i","l","s">>,
                      <<".","j","o","b","-","d","e","s","c","r","i","p","t","i","o","n">> >>,
      company   |-> <<"V","a","r","i","o","u","s"," ","(","G","r","e","e","n","h","o","u","s","e",")">> ],
    [ domain    |-> <<"l","i","n","k","e","d","i","n",".","c","o","m","/","j","o","b","s">>,
      selectors |-> << <<".","j","o","b","s","-","d","e","s","c","r","i","p","t","i","o","n","-","c","o","n","t","e","n","t","_","_","t","e","x","t">>,
                      <<".","j","o","b","s","-","b","o","x","_","_","h","t","m","l","-","c","o","n","t","e","n","t">>,
                      <<".","j","o","b","-","d","e","t","a","i","l","s">> >>,
      company   |-> <<"V","a","r","i","o","u","s"," ","(","L","i","n","k","e","d","I","n",")">> ],
    [ domain    |-> <<"i","n","d","e","e","d",".","c","o","m">>,
      selectors |-> << <<".","j","o","b","s","e","a","r","c","h","-","j","o","b","D","e","s","c","r","i","p","t","i","o","n","T","e","x","t">>,
                      <<".","j","o","b","s","e","a","r","c","h","-","J","o","b","C","o","m","p","o","n","e","n","t","-","d","e","s","c","r","i","p","t","i","o","n">>,
                      <<"#","j","o","b","D","e","s","c","r","i","p","t","i","o","n","T","e","x","t">> >>,
      company   |-> <<"V","a","r","i","o","u","s"," ","(","I","n","d","e","e","d",")">> ],
    [ domain    |-> <<"g","l","a","s","s","d","o","o","r",".","c","o","m">>,
      selectors |-> << <<".","j","o","b","D","e","s","c","r","i","p","t","i","o","n","C","o","n","t","e","n","t">>,
                      <<".","d","e","s","c">>,
                      <<".","j","o","b","-","d","e","s","c","r","i","p","t","i","o","n","-","c","o","n","t","e","n","t">> >>,
      company   |-> <<"V","a","r","i","o","u","s"," ","(","G","l","a","s","s","d","o","o","r",")">> ],
    [ domain    |-> <<"w","e","l","l","f","o","u","n","d",".","c","o","m">>,
      selectors |-> << <<".","j","o","b","-","d","e","s","c","r","i","p","t","i","o","n">>,
                      <<".","s","t","a","r","t","u","p","-","j","o","b","-","l","i","s","t","i","n","g">>,
                      <<".","j","o","b","-","c","o","n","t","e","n","t">> >>,
      company   |-> <<"V","a","r","i","o","u","s"," ","(","W","e","l","l","f","o","u","n","d",")">> ]
  >>

siteSelectors ==
  <<
    [ domain    |-> <<"l","i","n","k","e","d","i","n",".","c","o","m">>,
      selectors |-> << <<".","j","o","b","s","-","d","e","s","c","r","i","p","t","i","o","n","-","c","o","n","t","e","n","t","_","_","t","e","x","t">>,
                      <<".","j","o","b","s","-","b","o","x","_","_","h","t","m","l","-","c","o","n","t","e","n","t">>,
                      <<".","j","o","b","-","d","e","t","a","i","l","s">>,
                      <<".","j","o","b","s","-","d","e","s","c","r","i","p","t","i","o","n">> >> ],
    [ domain    |-> <<"i","n","d","e","e","d",".","c","o","m">>,
      selectors |-> << <<".","j","o","b","s","e","a","r","c","h","-","j","o","b","D","e","s","c","r","i","p","t","i","o","n","T","e","x","t">>,
                      <<".","j","o","b","s","e","a","r","c","h","-","J","o","b","C","o","m","p","o","n","e","n","t","-","d","e","s","c","r","i","p","t","i","o","n">>,
                      <<"#","j","o","b","D","e","s","c","r","i","p","t","i","o","n","T","e","x","t">>,
                      <<".","j","o","b","-","d","e","s","c","r","i","p","t","i","o","n">> >> ],
    [ domain    |-> <<"g","l","a","s","s","d","o","o","r",".","c","o","m">>,
      selectors |-> << <<".","j","o","b","D","e","s","c","r","i","p","t","i","o","n","C","o","n","t","e","n","t">>,
                      <<".","d","e","s","c">>,
                      <<".","j","o","b","-","d","e","s","c","r","i","p","t","i","o","n","-","c","o","n","t","e","n","t">>,
                      <<".","j","o","b","D","e","s","c">> >> ],
    [ domain    |-> <<"l","e","v","e","r",".","c","o">>,
      selectors |-> << <<".","s","e","c","t","i","o","n","-","w","r","a","p","p","e","r">>,
                      <<".","j","o","b","-","d","e","s","c","r","i","p","t","i","o","n">>,
                      <<".","c","o","n","t","e","n","t">> >> ],
    [ domain    |-> <<"g","r","e","e","n","h","o","u","s","e",".","i","o">>,
      selectors |-> << <<".","j","o","b","-","p","o","s","t","-","c","o","n","t","e","n","t">>,
                      <<".","a","p","p","l","i","c","a","t","i","o","n","-","d","e","t","a","i","l","s">>,
                      <<".","j","o","b","-","d","e","s","c","r","i","p","t","i","o","n">> >> ],
    [ domain    |-> <<"w","o","r","k","d","a","y",".","c","o","m">>,
      selectors |-> << <<"[","d","a","t","a","-","a","u","t","o","m","a","t","i","o","n","-","i","d","=","\"","j","o","b","P","o","s","t","i","n","g","D","e","s","c","r","i","p","t","i","o","n","\"","]">>,
                      <<".","j","o","b","P","o","s","t","i","n","g","D","e","s","c","r","i","p","t","i","o","n">>,
                      <<".","j","o","b","-","d","e","s","c","r","i","p","t","i","o","n">> >> ],
    [ domain    |-> <<"b","a","m","b","o","o","h","r",".","c","o","m">>,
      selectors |-> << <<".","j","o","b","-","d","e","s","c","r","i","p","t","i","o","n">>,
                      <<".","B","a","m","b","o","o","H","R","-","A","T","S","-","D","e","s","c","r","i","p","t","i","o","n">> >> ]
  >>

-----------------------------------------------------------------------------
(* Texts.  A token [k, n, t] stands for a concrete string:                 *)
(*   fill    "." repeated n times (punctuation: no word character)         *)
(*   sp      n whitespace characters                                       *)
(*   script  "<script>" + n characters + "</script>"                       *)
(*   open    "<" + t + ">", a tag, t its text, e.g. div class="x"          *)
(*   close   "</div>"                                                      *)
(*   eopen   "&lt;" + t + "&gt;", the same tag written with entities       *)
(*   eclose  "&lt;/div&gt;"                                                *)
(*   name    t + ".", a word such as an employer's name                    *)
(*   noise   "Apply now." repeated n times                                 *)
(*   hdr     "overview." repeated n times                                  *)
(*   offer   "what we offer." repeated n times                             *)
(*   jd      "\n\nJob Description:." repeated n times                      *)
(*   ben     "\n\nBenefits:." repeated n times                             *)
(*   jd2     "\n\n\n\nJob Description::." repeated n times                 *)
(*   ben2    "\n\n\n\nBenefits::." repeated n times                        *)
(*   jdt     "Job Description:."   (a heading whose blank line was trimmed)  *)
(*   bent    "Benefits:."                                                  *)
(*   jdt2    "\n\nJob Description::."                                      *)
(*   bent2   "\n\nBenefits::."                                             *)
(*   src     "Source: " + t + "\n\n"                                       *)
(*   co      "Company: " + t + "\n\n"                                      *)
(*   coj     "Company: " + t  (its blank line merged into a following one) *)
(*   frag    n characters cut out of the middle of a unit by slice()       *)
(*   nav     n characters of navigation or footer text ("~")               *)
(* Every unit ends in a non-word character, so the \b of the enhancer's    *)
(* patterns holds on both sides of every phrase.                           *)

Tok(k, n, t) == [k |-> k, n |-> n, t |-> t]

Fill(n) == Tok("fill", n, <<>>)

Nav(n) == Tok("nav", n, <<>>)

\* length of one unit of a token
UnitLen(x) ==
    CASE x.k = "fill"   -> 1
      [] x.k = "sp"     -> 1
      [] x.k = "frag"   -> 1
      [] x.k = "nav"    -> 1
      [] x.k = "noise"  -> 10
      [] x.k = "hdr"    -> 9
      [] x.k = "offer"  -> 14
      [] x.k = "jd"     -> 19
      [] x.k = "ben"    -> 12
      [] x.k = "jd2"    -> 22
      [] x.k = "ben2"   -> 15
      [] x.k = "jdt"    -> 17
      [] x.k = "bent"   -> 10
      [] x.k = "jdt2"   -> 20
      [] x.k = "bent2"  -> 13
      [] OTHER          -> 0

\* String.prototype.length of the string a token stands for
TokLen(x) ==
    CASE x.k = "script" -> 17 + x.n
      [] x.k = "open"   -> 2 + Len(x.t)
      [] x.k = "close"  -> 6
      [] x.k = "eopen"  -> 8 + Len(x.t)
      [] x.k = "eclose" -> 12
      [] x.k = "name"   -> Len(x.t) + 1
      [] x.k = "src"    -> 10 + Len(x.t)
      [] x.k = "co"     -> 11 + Len(x.t)
      [] x.k = "coj"    -> 9 + Len(x.t)
      [] OTHER          -> UnitLen(x) * x.n

RECURSIVE Length(_)
Length(s) == IF s = <<>> THEN 0 ELSE TokLen(Head(s)) + Length(Tail(s))

\* nullable results: string | null
Null    == [ok |-> FALSE, v |-> <<>>]
Some(s) == [ok |-> TRUE, v |-> s]

\* JavaScript `!content` for string | null: null and '' are falsy
Falsy(c) == ~c.ok \/ Length(c.v) = 0

\* .replace(/\s+/g, ' '): every whitespace run becomes one space
RECURSIVE CollapseWs(_)
CollapseWs(s) ==
    IF s = <<>> THEN <<>>
    ELSE LET x == Head(s)
             r == CollapseWs(Tail(s))
         IN  IF TokLen(x) = 0 THEN r
             ELSE IF x.k # "sp" THEN <<x>> \o r
             ELSE IF r # <<>> /\ Head(r).k = "sp" THEN r
             ELSE <<Tok("sp", 1, <<>>)>> \o r

\* String.prototype.trim
RECURSIVE TrimLeft(_)
TrimLeft(s) ==
    IF s # <<>> /\ (Head(s).k = "sp" \/ TokLen(Head(s)) = 0)
    THEN TrimLeft(Tail(s)) ELSE s

RECURSIVE TrimRight(_)
TrimRight(s) ==
    IF s # <<>> /\ (s[Len(s)].k = "sp" \/ TokLen(s[Len(s)]) = 0)
    THEN TrimRight(SubSeq(s, 1, Len(s) - 1)) ELSE s

Trim(s) == TrimRight(TrimLeft(s))

\* String.prototype.slice(0, max)
RECURSIVE Slice(_, _)
Slice(s, max) ==
    IF s = <<>> \/ max <= 0 THEN <<>>
    ELSE LET x == Head(s)
             l == TokLen(x)
         IN  IF l <= max THEN <<x>> \o Slice(Tail(s), max - l)
             ELSE IF UnitLen(x) > 0
             THEN (IF max \div UnitLen(x) > 0
                   THEN <<Tok(x.k, max \div UnitLen(x), x.t)>> ELSE <<>>)
                  \o (IF max % UnitLen(x) > 0
                      THEN <<Tok("frag", max % UnitLen(x), <<>>)>> ELSE <<>>)
             ELSE <<Tok("frag", max, <<>>)>>

-----------------------------------------------------------------------------
(* HTML-to-text normalizer *)

\* /<script\b...<\/script>/gi, /<style\b...<\/style>/gi, /<!--[\s\S]*?-->/g
StripBlocks(x) == IF x.k = "script" THEN <<>> ELSE <<x>>

\* .replace(/<[^>]*>/g, ' ')
StripTags(x) ==
    IF x.k \in {"open", "close"} THEN <<Tok("sp", 1, <<>>)>> ELSE <<x>>

\* &lt; and &gt; (and the other entities) become their literal characters
DecodeEntities(x) ==
    CASE x.k = "eopen"  -> <<Tok("open", 1, x.t)>>
      [] x.k = "eclose" -> <<Tok("close", 1, <<>>)>>
      [] OTHER          -> <<x>>

\* /\bApply now\b/gi ... /\bPrivacy policy\b/gi  ->  ''
RemoveNoise(x) == IF x.k = "noise" THEN <<Fill(x.n)>> ELSE <<x>>

\* the five header replacements; a canonical heading contains a synonym of
\* its own section, so it is rewritten again when it is met again
NormalizeHeaders(x) ==
    CASE x.k = "hdr"   -> <<Tok("jd", x.n, <<>>)>>
      [] x.k = "offer" -> <<Tok("ben", x.n, <<>>)>>
      [] x.k = "jd"    -> <<Tok("jd2", x.n, <<>>)>>
      [] x.k = "ben"   -> <<Tok("ben2", x.n, <<>>)>>
      [] x.k = "jdt"   -> <<Tok("jdt2", x.n, <<>>)>>
      [] x.k = "bent"  -> <<Tok("bent2", x.n, <<>>)>>
      [] OTHER         -> <<x>>

\* one replacement pass over one piece of the text
ApplyPass(pass, x) ==
    CASE pass = "blocks"   -> StripBlocks(x)
      [] pass = "tags"     -> StripTags(x)
      [] pass = "entities" -> DecodeEntities(x)
      [] pass = "noise"    -> RemoveNoise(x)
      [] pass = "headers"  -> NormalizeHeaders(x)

\* String.prototype.replace(/.../g, ...): the pass applied to every piece
RECURSIVE MapToks(_, _)
MapToks(pass, s) ==
    IF s = <<>> THEN <<>>
    ELSE ApplyPass(pass, Head(s)) \o MapToks(pass, Tail(s))

extractTextFromHtml(html) ==
    Trim(CollapseWs(
        MapToks("entities", MapToks("tags", MapToks("blocks", html)))))

\* the copy of the normalizer in the scrape-job handler
extractTextFromHtmlJob(html) ==
    Trim(CollapseWs(
        MapToks("entities", MapToks("tags", MapToks("blocks", html)))))

-----------------------------------------------------------------------------
(* Content enhancer / cleaner *)

enhanceJobContent(text, hostname) ==
    MapToks("headers",
            MapToks("noise", <<Tok("src", 1, hostname)>> \o text))

\* cleaned.toLowerCase().includes(company.toLowerCase())
Mentions(text, company) ==
    \E i \in 1..Len(text) :
        /\ text[i].k = "name"
        /\ Includes(toLowerCase(text[i].t), toLowerCase(company))

StartsBlank(x) == x.k \in {"jd", "ben", "jd2", "ben2"}

\* .replace(/\n\s*\n\s*\n/g, '\n\n'): the blank line that ends the company
\* banner and the one that opens a heading right after it become one
MergeBlankLines(s) ==
    IF Len(s) >= 2 /\ s[1].k = "co" /\ StartsBlank(s[2])
    THEN <<Tok("coj", 1, s[1].t)>> \o Tail(s)
    ELSE s

\* .trim() of a text that begins with a canonical heading: the heading's
\* leading blank line goes (the cleaner's input comes from the normalizer,
\* so only first-generation headings can stand there)
TrimHeading(s) ==
    IF s # <<>> /\ s[1].k \in {"jd", "ben"}
    THEN <<Tok(IF s[1].k = "jd" THEN "jdt" ELSE "bent", 1, <<>>)>>
         \o (IF s[1].n > 1 THEN <<Tok(s[1].k, s[1].n - 1, <<>>)>> ELSE <<>>)
         \o Tail(s)
    ELSE s

cleanJobContent(text, company) ==
    LET cleaned  == Trim(CollapseWs(text))
        bannered == IF Mentions(cleaned, company) THEN cleaned
                    ELSE <<Tok("co", 1, company)>> \o cleaned
        quiet    == MapToks("noise", bannered)
        headed   == MapToks("headers", quiet)
    IN  TrimHeading(Trim(MergeBlankLines(headed)))

-----------------------------------------------------------------------------
(* Selector-based extraction (regular expressions over the text) *)

\* the tag text matches  <[^>]*ATTR[^>]*NAME[^>]*>  (flags gis)
TagMatches(t, attr, name) ==
    LET lt == toLowerCase(t)
        ln == toLowerCase(name)
    IN  \E i \in 1..Len(lt) :
            /\ HasAt(lt, attr, i)
            /\ \E j \in (i + Len(attr))..(Len(lt) + 1) : HasAt(lt, ln, j)

\* regex.exec(html) for  <[^>]*ATTR[^>]*NAME[^>]*>(.*?)<\/[^>]*>  :
\* match[1] (Null when there is no match)
RegexCapture(html, attr, name) ==
    LET opens == { i \in 1..Len(html) :
                     html[i].k = "open" /\ TagMatches(html[i].t, attr, name) }
    IN  IF opens = {} THEN Null
        ELSE LET i == CHOOSE x \in opens : \A y \in opens : x <= y
                 closes == { j \in (i + 1)..Len(html) : html[j].k = "close" }
             IN  IF closes = {} THEN Null
                 ELSE LET j == CHOOSE x \in closes : \A y \in closes : x <= y
                      IN  Some(SubSeq(html, i + 1, j - 1))

\* one `if (classMatch) {...}` / `if (idMatch) {...}` block of the loops:
\* the extracted text when the block accepts it, else Null
SelectorTry(html, attr, name) ==
    IF name = <<>> THEN Null
    ELSE LET m == RegexCapture(html, attr, name)
         IN  IF Falsy(m) THEN Null
             ELSE LET c == extractTextFromHtml(m.v)
                  IN  IF Length(c) > 200 THEN Some(c) ELSE Null

\* the `for (const selector of selectors)` loop, from selector i on:
\* the first accepted content, Null when no selector is accepted
RECURSIVE SelectorLoop(_, _, _)
SelectorLoop(html, selectors, i) ==
    IF i > Len(selectors) THEN Null
    ELSE LET byClass == SelectorTry(html, <<"c","l","a","s","s">>,
                                    SelectorName(selectors[i], "."))
             byId    == SelectorTry(html, <<"i","d">>,
                                    SelectorName(selectors[i], "#"))
         IN  IF byClass.ok THEN byClass
             ELSE IF byId.ok THEN byId
             ELSE SelectorLoop(html, selectors, i + 1)

\* hostname.includes(domain) || domain.includes(hostname.replace('www.', ''))
DomainMatches(hostname, domain) ==
    Includes(hostname, domain) \/ Includes(domain, StripWww(hostname))

\* index of the first registry entry matching the hostname, 0 when none
ConfigIndex(hostname) ==
    LET hits == { i \in 1..Len(SPECIALIZED_CONFIGS) :
                    DomainMatches(hostname, SPECIALIZED_CONFIGS[i].domain) }
    IN  IF hits = {} THEN 0 ELSE CHOOSE x \in hits : \A y \in hits : x <= y

hasSpecializedScraper(hostname) == ConfigIndex(hostname) # 0

\* the returned {content, method}: method is `specialized-${domain}`
extractSpecializedContent(html, hostname) ==
    LET c == ConfigIndex(hostname)
    IN  IF c = 0 THEN [ok |-> FALSE, v |-> <<>>, domain |-> <<>>]
        ELSE LET config     == SPECIALIZED_CONFIGS[c]
                 jobContent == SelectorLoop(html, config.selectors, 1)
             IN  IF Falsy(jobContent) \/ Length(jobContent.v) < 100
                 THEN [ok |-> FALSE, v |-> <<>>, domain |-> <<>>]
                 ELSE [ok |-> TRUE,
                       v  |-> cleanJobContent(jobContent.v, config.company),
                       domain |-> config.domain]

extractTargetedContent(html, selectors) == SelectorLoop(html, selectors, 1)

\* Object.keys(siteSelectors).find(domain => hostname.includes(domain))
SiteIndex(hostname) ==
    LET hits == { i \in 1..Len(siteSelectors) :
                    Includes(hostname, siteSelectors[i].domain) }
    IN  IF hits = {} THEN 0 ELSE CHOOSE x \in hits : \A y \in hits : x <= y

-----------------------------------------------------------------------------
(* Thresholds and bounds of the two handlers *)

MinContent      == 100     \* advanced: content.length < 100 is a failure
FallbackBelow   == 200     \* advanced, auto: content.length < 200 falls back
MaxAdvanced     == 20000   \* advanced: enhancedContent.slice(0, 20000)
MinSpecialized  == 200     \* targetedScrape: specializedResult.content.length > 200
MinTargeted     == 200     \* targetedScrape: targetedContent.length > 200
MinHtmlJob      == 100     \* scrape-job: html.length < 100
MinTextJob      == 100     \* scrape-job: textContent.length < 100
MaxJob          == 15000   \* scrape-job: textContent.slice(0, 15000)

-----------------------------------------------------------------------------
(* The outbound GET and the two scrape functions built on it *)

\* response.ok
ResponseOk(o) == o.kind = "response" /\ o.status >= 200 /\ o.status <= 299

\* basicScrape without its `if (!response.ok) throw`
basicScrapeAnyStatus(o) ==
    IF o.kind = "response" THEN Some(extractTextFromHtml(o.page)) ELSE Null

\* basicScrape(url), given what its fetch did: every failure (a non-2xx
\* status, which it throws as `HTTP <status>: <statusText>`, a timeout, a
\* transport error) is caught inside and becomes null
basicScrape(o) ==
    IF ResponseOk(o) THEN Some(extractTextFromHtml(o.page)) ELSE Null

\* the selector steps given the page as it was fetched, not basicScrape's text
targetedScrapeOnMarkup(o, hostname) ==
    IF ~ResponseOk(o) THEN Null
    ELSE LET specializedResult == extractSpecializedContent(o.page, hostname)
             s == SiteIndex(hostname)
             targetedContent ==
                 IF s = 0 THEN Null
                 ELSE extractTargetedContent(o.page, siteSelectors[s].selectors)
         IN  IF specializedResult.ok
                /\ Length(specializedResult.v) > MinSpecialized
             THEN Some(specializedResult.v)
             ELSE IF ~Falsy(targetedContent)
                     /\ Length(targetedContent.v) > MinTargeted
             THEN targetedContent
             ELSE Some(extractTextFromHtml(o.page))

\* targetedScrape(url, hostname), given what the fetch of its basicScrape
\* call did: `html` is basicScrape's return value
targetedScrape(o, hostname) ==
    LET html == basicScrape(o)
    IN  IF Falsy(html) THEN Null
        ELSE LET specializedResult == extractSpecializedContent(html.v, hostname)
                 s == SiteIndex(hostname)
                 targetedContent ==
                     IF s = 0 THEN Null
                     ELSE extractTargetedContent(html.v, siteSelectors[s].selectors)
             IN  IF specializedResult.ok
                    /\ Length(specializedResult.v) > MinSpecialized
                 THEN Some(specializedResult.v)
                 ELSE IF ~Falsy(targetedContent)
                         /\ Length(targetedContent.v) > MinTargeted
                 THEN targetedContent
                 ELSE Some(extractTextFromHtml(html.v))

-----------------------------------------------------------------------------
(* Responses *)

NoResponse ==
    [status |-> 0, error |-> "", errStatus |-> 0, errReason |-> "",
     hasContent |-> FALSE, content |-> <<>>, contentLength |-> 0,
     hasMethod |-> FALSE, method |-> <<>>, cors |-> FALSE]

\* res.status(status).json({ error })
ErrorResponse(status, error, cors) ==
    [NoResponse EXCEPT !.status = status, !.error = error, !.cors = cors]

\* the strategy the switch sees: `strategy = 'auto'` when the body has none
Strategy(r) == IF r.strategy = "undefined" THEN "auto" ELSE r.strategy

\* the values `method` takes, as character strings
MethodUnknown             == <<"u","n","k","n","o","w","n">>
MethodBasic               == <<"b","a","s","i","c">>
MethodTargeted            == <<"t","a","r","g","e","t","e","d">>
MethodSpecializedTargeted == <<"s","p","e","c","i","a","l","i","z","e","d","-","t","a","r","g","e","t","e","d">>
MethodBasicFallback       == <<"b","a","s","i","c","-","f","a","l","l","b","a","c","k">>

\* `method` after the targetedScrape call
TargetedMethod(hostname) ==
    IF hasSpecializedScraper(hostname)
    THEN MethodSpecializedTargeted ELSE MethodTargeted

\* a fallback threshold of 100 in place of 200
NeedsFallbackAt100(c) == Falsy(c) \/ Length(c.v) < MinContent

\* the auto strategy's test for the fallback (line 300)
NeedsFallback(c) == Falsy(c) \/ Length(c.v) < FallbackBelow

\* a threshold of 10 in place of 100
TooShortAt10(c) == Falsy(c) \/ Length(c.v) < 10

\* the test without its length half
TooShortNullOnly(c) == Falsy(c)

\* `!content || content.length < 100` (line 307)
TooShort(c) == Falsy(c) \/ Length(c.v) < MinContent

\* the slice taken before the enhancement instead of after it
LimitedSliceFirst(text, hostname) ==
    enhanceJobContent(Slice(text, MaxAdvanced), hostname)

\* enhanceJobContent(content, hostname).slice(0, 20000) (lines 315-318)
Limited(text, hostname) ==
    Slice(enhanceJobContent(text, hostname), MaxAdvanced)

\* advanced handler from the length check to the response (lines 307-335)
AdvancedRespond(c, m, hostname) ==
    IF TooShort(c)
    THEN [NoResponse EXCEPT
            !.status = 400,
            !.error = "Could not extract meaningful content from webpage",
            !.hasMethod = TRUE, !.method = m]
    ELSE LET limitedContent == Limited(c.v, hostname)
         IN  [NoResponse EXCEPT
                !.status = 200, !.hasContent = TRUE,
                !.content = limitedContent,
                !.contentLength = Length(limitedContent),
                !.hasMethod = TRUE, !.method = m, !.cors = TRUE]

\* scrape-job handler after the fetch returned a response (lines 361-397)
JobRespond(o) ==
    IF ~ResponseOk(o)
    THEN [NoResponse EXCEPT
            !.status = o.status, !.error = "Failed to fetch webpage",
            !.errStatus = o.status, !.errReason = o.statusText]
    ELSE IF Length(o.page) < MinHtmlJob
    THEN ErrorResponse(400, "Webpage content appears to be empty or too short", FALSE)
    ELSE LET textContent == extractTextFromHtmlJob(o.page)
         IN  IF Length(textContent) < MinTextJob
             THEN ErrorResponse(400,
                    "Could not extract meaningful content from webpage", FALSE)
             ELSE LET limitedContent == Slice(textContent, MaxJob)
                  IN  [NoResponse EXCEPT
                         !.status = 200, !.hasContent = TRUE,
                         !.content = limitedContent,
                         !.contentLength = Length(limitedContent),
                         !.cors = TRUE]

\* scrape-job handler's catch block (lines 399-420)
JobCatch(o) ==
    IF o.name = "AbortError"
    THEN ErrorResponse(408, "Request timeout - webpage took too long to load", TRUE)
    ELSE IF o.code \in {"ENOTFOUND", "ECONNREFUSED"}
    THEN ErrorResponse(400,
           "Could not connect to the website. Please check the URL.", TRUE)
    ELSE ErrorResponse(500, "Failed to scrape webpage", TRUE)

\* advanced handler's catch block (lines 337-352), for an error named `name`
AdvancedCatch(name) ==
    IF name = "AbortError"
    THEN ErrorResponse(408, "Request timeout", TRUE)
    ELSE ErrorResponse(500, "Failed to scrape webpage", TRUE)

-----------------------------------------------------------------------------
(* Inputs: requests, pages and fetch outcomes *)

MaxRequests == 2     \* requests served one after the other
Delta       == 1     \* page sizes are taken within Delta of each threshold

HostGoogle  == <<"c","a","r","e","e","r","s",".","g","o","o","g","l","e",".","c","o","m">>
HostIndeed  == <<"w","w","w",".","i","n","d","e","e","d",".","c","o","m">>
HostExample == <<"e","x","a","m","p","l","e",".","o","r","g">>
HostJobs    == <<"j","o","b","s">>
Hosts       == {HostGoogle, HostIndeed, HostExample, HostJobs}

Strategies  == {"basic", "targeted", "auto", "undefined"}

\* req.method, req.body (absent, without url, with an unparseable url, or
\* with an absolute url on `host`) and body.strategy
Request(m, b, h, s) == [httpMethod |-> m, body |-> b, host |-> h, strategy |-> s]

NoRequest == Request("", "", <<>>, "")

Requests ==
    {Request(m, "valid", HostExample, "undefined") : m \in {"OPTIONS", "GET"}}
    \cup {Request("POST", b, <<>>, "undefined") : b \in {"absent", "nourl", "badurl"}}
    \cup {Request("POST", "valid", h, s) : h \in Hosts, s \in Strategies}

TagClass == <<"d","i","v"," ","c","l","a","s","s","=","\"","j","o","b","-","d","e","s","c","r","i","p","t","i","o","n","\"">>
TagId    == <<"d","i","v"," ","i","d","=","\"","j","o","b","D","e","s","c","r","i","p","t","i","o","n","T","e","x","t","\"">>
Tags     == {TagClass, TagId}

Open(t)   == Tok("open", 1, t)
Close     == Tok("close", 1, <<>>)
EOpen(t)  == Tok("eopen", 1, t)
EClose    == Tok("eclose", 1, <<>>)
Noise(n)  == Tok("noise", n, <<>>)
Name(t)   == Tok("name", 1, t)

Around(n) == (n - Delta)..(n + Delta)

Sizes == {0} \cup Around(MinContent) \cup Around(FallbackBelow)
             \cup Around(MaxJob) \cup Around(MaxAdvanced)

Pages ==
    \* plain text of every size
    {<<Fill(n)>> : n \in Sizes}
    \* an element in real markup, and the same element written with entities
    \cup {<<Fill(30), Open(t), Fill(n), Close>> : t \in Tags, n \in Around(FallbackBelow)}
    \cup {<<Fill(30), EOpen(t), Fill(n), EClose>> : t \in Tags, n \in Around(FallbackBelow)}
    \* a posting of 500 characters between a navigation bar and a footer
    \cup {<<Nav(300), Open(TagClass), Fill(500), Close, Nav(300)>>}
    \* noise phrases, section-header synonyms, a script block, a company name
    \cup {<<Noise(n)>> : n \in {10, 21}}
    \cup {<<EOpen(TagClass), Noise(21), EClose>>}
    \cup {<<Tok("hdr", 12, <<>>)>>, <<Tok("offer", 8, <<>>)>>}
    \cup {<<Tok("script", 90, <<>>), Fill(n)>> : n \in {50, 100}}
    \cup {<<EOpen(TagClass), Name(<<"G","o","o","g","l","e">>), Fill(201), EClose>>,
          <<EOpen(TagClass), Tok("hdr", 25, <<>>), Name(<<"G","o","o","g","l","e">>), EClose>>}

\* what a GET can do: answer with a status, a reason phrase and a body, or
\* throw (the timeout signal's error is named AbortError or TimeoutError,
\* depending on the runtime; a transport error may or may not carry a code)
Response(status, statusText, page) ==
    [kind |-> "response", status |-> status, statusText |-> statusText,
     page |-> page, name |-> "", code |-> ""]

Throw(name, code) ==
    [kind |-> "throw", status |-> 0, statusText |-> "", page |-> <<>>,
     name |-> name, code |-> code]

IsTimeout(o) == o.kind = "throw" /\ o.name \in {"AbortError", "TimeoutError"}

Outcomes ==
    {Response(200, "OK", p) : p \in Pages}
    \cup {Response(404, "Not Found", <<Fill(300)>>),
          Response(500, "Internal Server Error", <<Fill(300)>>)}
    \cup {Throw("AbortError", ""), Throw("TimeoutError", ""),
          Throw("FetchError", "ENOTFOUND"), Throw("TypeError", "")}

-----------------------------------------------------------------------------
(* The handlers, one action per stretch of code between two awaits *)

\* no function is applied on its own while the handlers serve requests
NoCall == [fn |-> "", arg |-> <<>>, out |-> <<>>]

\* the browser-side components not started
NoHook == <<>>
NoStore == <<>>
NoAnalyzer == <<>>

ClientIdle ==
    /\ hook = NoHook
    /\ store = NoStore
    /\ analyzer = NoAnalyzer

Init ==
    /\ pc = "idle"
    /\ endpoint = ""
    /\ req = NoRequest
    /\ targeted = Null
    /\ content = Null
    /\ method = MethodUnknown
    /\ fetches = <<>>
    /\ res = NoResponse
    /\ served = 0
    /\ call = NoCall
    /\ inflight = <<>>
    /\ ClientIdle

Send(r) ==
    /\ res' = r
    /\ pc' = "done"
    /\ served' = served + 1

\* the advanced handler without its `new URL(url)` test
AdvancedValidateNoParse(r) ==
    IF r.httpMethod = "OPTIONS" THEN [NoResponse EXCEPT !.status = 200, !.cors = TRUE]
    ELSE IF r.httpMethod # "POST" THEN ErrorResponse(405, "Method not allowed", FALSE)
    ELSE IF r.body = "absent" THEN AdvancedCatch("TypeError")
    ELSE IF r.body = "nourl" THEN ErrorResponse(400, "URL is required", FALSE)
    ELSE NoResponse

\* the checks of the advanced handler that end a request before any fetch
\* (lines 248-272): the response they send, NoResponse when the request passes
AdvancedValidate(r) ==
    IF r.httpMethod = "OPTIONS" THEN [NoResponse EXCEPT !.status = 200, !.cors = TRUE]
    ELSE IF r.httpMethod # "POST" THEN ErrorResponse(405, "Method not allowed", FALSE)
    ELSE IF r.body = "absent" THEN AdvancedCatch("TypeError")
    ELSE IF r.body = "nourl" THEN ErrorResponse(400, "URL is required", FALSE)
    ELSE IF r.body = "badurl" THEN ErrorResponse(400, "Invalid URL provided", FALSE)
    ELSE NoResponse

\* scrape-advanced.ts handler, from entry to the first await (lines 246-297)
AdvancedReceive(r) ==
    /\ pc = "idle"
    /\ served < MaxRequests
    /\ endpoint' = "advanced"
    /\ req' = r
    /\ UNCHANGED <<targeted, content, method, fetches, call, inflight, clientVars>>
    /\ IF AdvancedValidate(r) # NoResponse THEN Send(AdvancedValidate(r))
       ELSE /\ pc' = "advanced_fetch"
            /\ UNCHANGED <<res, served>>

\* the first GET returns: the rest of the strategy switch (lines 285-305),
\* then either the second GET of the auto fallback is issued or the
\* response is sent (lines 307-335)
AdvancedFetch(o) ==
    /\ pc = "advanced_fetch"
    /\ fetches' = Append(fetches, o)
    /\ UNCHANGED <<endpoint, req, call, inflight, clientVars>>
    /\ IF Strategy(req) = "basic"
       THEN /\ content' = basicScrape(o)
            /\ method' = MethodBasic
            /\ UNCHANGED targeted
            /\ Send(AdvancedRespond(content', method', req.host))
       ELSE /\ targeted' = targetedScrape(o, req.host)
            /\ content' = targeted'
            /\ method' = TargetedMethod(req.host)
            /\ IF Strategy(req) # "targeted"
                  /\ NeedsFallback(content')
               THEN /\ pc' = "advanced_fallback"
                    /\ UNCHANGED <<res, served>>
               ELSE Send(AdvancedRespond(content', method', req.host))

\* the GET of the fallback's basicScrape(url) returns (lines 301-335)
AdvancedFallback(o) ==
    /\ pc = "advanced_fallback"
    /\ fetches' = Append(fetches, o)
    /\ content' = basicScrape(o)
    /\ method' = MethodBasicFallback
    /\ UNCHANGED <<endpoint, req, targeted, call, inflight, clientVars>>
    /\ Send(AdvancedRespond(content', method', req.host))

\* the checks of the scrape-job handler that end a request before its fetch
\* (lines 316-337): the response they send, NoResponse when the request passes
JobValidate(r) ==
    IF r.httpMethod = "OPTIONS" THEN [NoResponse EXCEPT !.status = 200]
    ELSE IF r.httpMethod # "POST" THEN ErrorResponse(405, "Method not allowed", FALSE)
    ELSE IF r.body = "absent" THEN JobCatch(Throw("TypeError", ""))
    ELSE IF r.body = "nourl" THEN ErrorResponse(400, "URL is required", FALSE)
    ELSE IF r.body = "badurl" THEN ErrorResponse(400, "Invalid URL provided", FALSE)
    ELSE NoResponse

\* scrape-job handler, from entry to its await (lines 314-342)
JobReceive(r) ==
    /\ pc = "idle"
    /\ served < MaxRequests
    /\ endpoint' = "job"
    /\ req' = r
    /\ UNCHANGED <<targeted, content, method, fetches, call, inflight, clientVars>>
    /\ IF JobValidate(r) # NoResponse THEN Send(JobValidate(r))
       ELSE /\ pc' = "job_fetch"
            /\ UNCHANGED <<res, served>>

\* the GET returns or throws: lines 361-397, or the catch block
JobFetch(o) ==
    /\ pc = "job_fetch"
    /\ fetches' = Append(fetches, o)
    /\ content' = IF ResponseOk(o) /\ Length(o.page) >= MinHtmlJob
                  THEN Some(extractTextFromHtmlJob(o.page)) ELSE Null
    /\ UNCHANGED <<endpoint, req, targeted, method, call, inflight, clientVars>>
    /\ Send(IF o.kind = "throw" THEN JobCatch(o) ELSE JobRespond(o))

\* nothing outlives a request: the next one starts from scratch
NextRequest ==
    /\ pc = "done"
    /\ served < MaxRequests
    /\ pc' = "idle"
    /\ endpoint' = ""
    /\ req' = NoRequest
    /\ targeted' = Null
    /\ content' = Null
    /\ method' = MethodUnknown
    /\ fetches' = <<>>
    /\ res' = NoResponse
    /\ UNCHANGED <<served, call, inflight, clientVars>>

Next ==
    \/ \E r \in Requests : AdvancedReceive(r)
    \/ \E o \in Outcomes : AdvancedFetch(o)
    \/ \E o \in Outcomes : AdvancedFallback(o)
    \/ \E r \in Requests : JobReceive(r)
    \/ \E o \in Outcomes : JobFetch(o)
    \/ NextRequest

Spec == Init /\ [][Next]_vars

-----------------------------------------------------------------------------
(* Properties *)

Responded  == pc = "done"
Advanced   == endpoint = "advanced"
Job        == endpoint = "job"
Fetched    == Len(fetches) >= 1
LastFetch  == fetches[Len(fetches)]
Success    == Responded /\ res.status = 200 /\ res.hasContent

\* C1: every 200 success response of the advanced handler returns a content
\* of at least 100 characters (after enhancement and truncation).
C1_SuccessContentAtLeast100 ==
    (Success /\ Advanced) => Length(res.content) >= 100

\* C2: in every success response the content is no longer than the
\* endpoint's bound (20000 advanced, 15000 scrape-job), the advanced handler
\* truncates the enhanced content, and contentLength is the content's length.
C2_ContentBounded ==
    Success =>
        /\ Length(res.content) <= (IF Advanced THEN 20000 ELSE 15000)
        /\ res.contentLength = Length(res.content)
        /\ Advanced =>
             res.content = Slice(enhanceJobContent(content.v, req.host), 20000)

\* C2 witness: a success response whose enhanced content was longer than the
\* bound and was cut to exactly 20000 characters.
C2_Witness ==
    /\ Success /\ Advanced
    /\ Length(enhanceJobContent(content.v, req.host)) > 20000
    /\ Length(res.content) = 20000

\* C3: under strategy auto (or no strategy), when targeted extraction yields
\* nothing or fewer than 200 characters the basic path is run again, the
\* method is basic-fallback and the content is the basic path's; when it
\* yields 200 or more the method is not basic-fallback.
C3_AutoFallback ==
    (Responded /\ Advanced /\ Fetched /\ Strategy(req) = "auto") =>
        LET t == targetedScrape(fetches[1], req.host)
        IN  IF ~t.ok \/ Length(t.v) < 200
            THEN /\ Len(fetches) = 2
                 /\ res.method = MethodBasicFallback
                 /\ content = basicScrape(fetches[2])
                 /\ res.status = 200 =>
                      res.content =
                        Slice(enhanceJobContent(basicScrape(fetches[2]).v, req.host),
                              20000)
            ELSE /\ Len(fetches) = 1
                 /\ res.method # MethodBasicFallback
                 /\ content = t

\* C3 witness: an auto request whose targeted extraction gave a text shorter
\* than 200 characters and that succeeded through the fallback.
C3_Witness ==
    /\ Success /\ Advanced /\ Strategy(req) = "auto"
    /\ targeted.ok /\ Length(targeted.v) > 0 /\ Length(targeted.v) < 200
    /\ res.method = MethodBasicFallback

\* the method tags a strategy can have attempted when its content is short
Attempted(strategy, hostname) ==
    CASE strategy = "basic"    -> {MethodBasic}
      [] strategy = "targeted" -> {TargetedMethod(hostname)}
      [] OTHER                 -> {MethodBasicFallback}

\* C4: when the content after all fallbacks is none or shorter than 100
\* characters, the advanced handler answers 400 with the method attempted
\* and without a content field.
C4_ShortContentFails ==
    (Responded /\ Advanced /\ Fetched
       /\ (~content.ok \/ Length(content.v) < 100)) =>
        /\ res.status = 400
        /\ res.hasMethod
        /\ res.method \in Attempted(Strategy(req), req.host)
        /\ ~res.hasContent
        /\ res.content = <<>>

\* C4 witness: an extraction that produced a text of 1..99 characters and
\* was answered 400.
C4_Witness ==
    /\ Responded /\ Advanced /\ Fetched
    /\ content.ok /\ Length(content.v) > 0 /\ Length(content.v) < 100
    /\ res.status = 400

\* C5: each extraction request issues at most one outbound GET, for every
\* strategy, also in the auto fallback and after a failed first fetch.
C5_AtMostOneFetch == Len(fetches) <= 1

\* C6: when the fetch of the target page times out, both handlers answer
\* 408 (not 400, not 500).
C6_TimeoutIs408 ==
    (Responded /\ Fetched /\ \A i \in 1..Len(fetches) : IsTimeout(fetches[i]))
        => res.status = 408

\* C7: when the target answers the GET with a non-2xx status, the error sent
\* to the caller carries that status code and reason phrase and is not the
\* content-too-short error.
C7_HttpErrorCarriesStatus ==
    (Responded /\ Fetched
       /\ \A i \in 1..Len(fetches) :
            fetches[i].kind = "response" /\ ~ResponseOk(fetches[i])) =>
        /\ res.errStatus = LastFetch.status
        /\ res.errReason = LastFetch.statusText
        /\ res.error # "Could not extract meaningful content from webpage"

\* C8: a fetched body shorter than 100 characters never yields a success
\* response, for every strategy and in both handlers.
C8_ShortBodyFails ==
    (Responded /\ Fetched /\ ResponseOk(LastFetch)
       /\ Length(LastFetch.page) < 100) =>
        /\ res.status # 200
        /\ ~res.hasContent

\* C8 witness: the advanced handler fetched a non-empty body shorter than
\* 100 characters and answered with an error.
C8_Witness ==
    /\ Responded /\ Advanced /\ Fetched /\ ResponseOk(LastFetch)
    /\ Length(LastFetch.page) > 0 /\ Length(LastFetch.page) < 100
    /\ res.status = 400

\* C9: when the target answers 404 (to every GET the request issues), the
\* response is a 400 or a 404 and has no content key, for every strategy of
\* the advanced handler and for the scrape-job handler.
C9_NotFoundIsClientError ==
    (Responded /\ Fetched
       /\ \A i \in 1..Len(fetches) :
            fetches[i].kind = "response" /\ fetches[i].status = 404) =>
        /\ res.status \in {400, 404}
        /\ ~res.hasContent

\* C9 witness: an auto request of the advanced handler whose two GETs were
\* both answered 404 and that ended in an error.
C9_Witness ==
    /\ Responded /\ Advanced /\ Len(fetches) = 2
    /\ \A i \in 1..2 : fetches[i].kind = "response" /\ fetches[i].status = 404
    /\ res.status = 400

SpecializedPrefix == <<"s","p","e","c","i","a","l","i","z","e","d","-">>

\* C10: under strategy targeted a success is tagged specialized-<fragment>
\* exactly when a registry entry matched the hostname and one of its
\* selectors supplied the returned content, and targeted otherwise.
C10_TargetedMethodTag ==
    (Success /\ Advanced /\ Strategy(req) = "targeted") =>
        LET html == basicScrape(fetches[1])
            sr   == extractSpecializedContent(html.v, req.host)
        IN  res.method = IF sr.ok /\ Length(sr.v) > 200
                         THEN SpecializedPrefix \o sr.domain
                         ELSE MethodTargeted

HasNav(s) == \E i \in 1..Len(s) : s[i].k = "nav"

\* C11: a targeted request for a page of a registered site, on whose raw HTML
\* one of the site's content selectors yields a long enough block, succeeds
\* with content that holds none of the navigation or footer text around the
\* block, and with a method tag that names the matched registry fragment.
C11_TargetedExtractsBlock ==
    (Responded /\ Advanced /\ Strategy(req) = "targeted"
       /\ Len(fetches) = 1 /\ ResponseOk(fetches[1])
       /\ LET raw == extractSpecializedContent(fetches[1].page, req.host)
          IN  raw.ok /\ Length(raw.v) > MinSpecialized) =>
        LET raw == extractSpecializedContent(fetches[1].page, req.host)
        IN  /\ res.status = 200
            /\ ~HasNav(res.content)
            /\ Includes(res.method, raw.domain)

-----------------------------------------------------------------------------
(* The registry lookup, applied to hostnames on its own *)

\* the keys of SITE_CONFIGS of the client-side scraper, in registration order
SITE_CONFIGS ==
  << <<"j","o","b","s",".","a","p","p","l","e",".","c","o","m">>,
     <<"c","a","r","e","e","r","s",".","g","o","o","g","l","e",".","c","o","m">>,
     <<"a","m","a","z","o","n",".","j","o","b","s">>,
     <<"c","a","r","e","e","r","s",".","m","i","c","r","o","s","o","f","t",".","c","o","m">>,
     <<"j","o","b","s",".","n","e","t","f","l","i","x",".","c","o","m">>,
     <<"c","a","r","e","e","r","s",".","m","e","t","a",".","c","o","m">>,
     <<"j","o","b","s",".","l","e","v","e","r",".","c","o">>,
     <<"b","o","a","r","d","s",".","g","r","e","e","n","h","o","u","s","e",".","i","o">>,
     <<"l","i","n","k","e","d","i","n",".","c","o","m","/","j","o","b","s">>,
     <<"i","n","d","e","e","d",".","c","o","m">>,
     <<"g","l","a","s","s","d","o","o","r",".","c","o","m">>,
     <<"w","e","l","l","f","o","u","n","d",".","c","o","m">> >>

\* SpecializedScraper.getSiteConfig(url): the `domain` of the first entry the
\* hostname matches, <<>> for null
getSiteConfig(hostname) ==
    LET hits == { i \in 1..Len(SITE_CONFIGS) :
                    DomainMatches(hostname, SITE_CONFIGS[i]) }
    IN  IF hits = {} THEN <<>>
        ELSE SITE_CONFIGS[CHOOSE x \in hits : \A y \in hits : x <= y]

\* the `domain` the loop of extractSpecializedContent stops at, <<>> for none
configDomain(hostname) ==
    IF ConfigIndex(hostname) = 0 THEN <<>>
    ELSE SPECIALIZED_CONFIGS[ConfigIndex(hostname)].domain

\* hostnames are up to MaxLabels labels joined by dots
MaxLabels == 3

Labels ==
    { <<"w","w","w">>,
      <<"j","o","b","s">>,
      <<"c","a","r","e","e","r","s">>,
      <<"a","p","p","l","e">>,
      <<"g","o","o","g","l","e">>,
      <<"c","o","m">>,
      <<"l","i","n","k","e","d","i","n">> }

RECURSIVE HostsOf(_)
HostsOf(n) ==
    IF n = 1 THEN Labels
    ELSE { l \o <<".">> \o h : l \in Labels, h \in HostsOf(n - 1) }

LookupHosts == UNION { HostsOf(n) : n \in 1..MaxLabels }

HandlersIdle ==
    /\ pc = "idle"
    /\ endpoint = ""
    /\ req = NoRequest
    /\ targeted = Null
    /\ content = Null
    /\ method = MethodUnknown
    /\ fetches = <<>>
    /\ res = NoResponse
    /\ served = 0

Apply(fn, out) ==
    /\ call' = [fn |-> fn, arg |-> call.arg, out |-> out]
    /\ UNCHANGED <<handlerVars, inflight, clientVars>>

LookupInit ==
    /\ HandlersIdle
    /\ inflight = <<>>
    /\ ClientIdle
    /\ call \in { [fn |-> "hostname", arg |-> h, out |-> <<>>] : h \in LookupHosts }

\* the handler's own test (lines 280-282)
LookupHandler ==
    /\ call.fn = "hostname"
    /\ Apply("hasSpecializedScraper", hasSpecializedScraper(call.arg))

\* the loop of extractSpecializedContent (lines 430-436)
LookupServer ==
    /\ call.fn = "hostname"
    /\ Apply("extractSpecializedContent", configDomain(call.arg))

\* the loop of getSiteConfig of the client-side scraper
LookupClient ==
    /\ call.fn = "hostname"
    /\ Apply("getSiteConfig", getSiteConfig(call.arg))

LookupNext == LookupHandler \/ LookupServer \/ LookupClient

SpecLookup == LookupInit /\ [][LookupNext]_vars

\* the lookup as stated: only a leading "www." is dropped from the hostname
StripLeadingWww(h) ==
    IF HasAt(h, <<"w","w","w",".">>, 1) THEN SubSeq(h, 5, Len(h)) ELSE h

StatedMatch(h, f) == Includes(h, f) \/ Includes(f, StripLeadingWww(h))

StatedDomain(h) ==
    LET hits == { i \in 1..Len(SITE_CONFIGS) : StatedMatch(h, SITE_CONFIGS[i]) }
    IN  IF hits = {} THEN <<>>
        ELSE SITE_CONFIGS[CHOOSE x \in hits : \A y \in hits : x <= y]

\* C12: the lookup of a hostname h returns the first registered fragment f,
\* in registration order, such that h contains f or f contains h with a
\* leading "www." stripped, and nothing when there is no such fragment; the
\* handler's test, the server lookup and the client lookup agree on it.
C12_LookupFirstMatch ==
    /\ call.fn \in {"extractSpecializedContent", "getSiteConfig"} =>
           call.out = StatedDomain(call.arg)
    /\ call.fn = "hasSpecializedScraper" =>
           call.out = (StatedDomain(call.arg) # <<>>)

\* the status the handlers are to answer an invalid request with, 0 for a
\* request that is to go on to the fetch
RejectStatus(r) ==
    IF r.httpMethod = "OPTIONS" THEN 200
    ELSE IF r.httpMethod # "POST" THEN 405
    ELSE IF r.body \in {"nourl", "badurl"} THEN 400
    ELSE 0

C14_EveryResponseHasCors ==
    Responded =>
        /\ res.cors
        /\ req.httpMethod = "OPTIONS" => (res.status = 200 /\ ~res.hasContent)

-----------------------------------------------------------------------------
(* Two invocations of the advanced handler, side by side *)

\* The runtime runs each invocation up to its next `await`; the steps of the
\* invocations in flight interleave in any order.  `run` holds what the
\* runtime keeps for an invocation (where it stands, the request it was
\* given, the GETs it issued, its response); `scope` holds the variables the
\* handler declares (url, strategy, parsedUrl, hasSpecializedScraper as
\* `req`; content; method).

Invocations == {"first", "second"}

IdleRun == [pc |-> "idle", sent |-> NoRequest, fetches |-> <<>>, res |-> NoResponse]

NoScope == [req |-> NoRequest, content |-> Null, method |-> MethodUnknown]

\* the handler's variables at module level: one scope for all invocations
ScopeModuleLevel(i) == "first"

\* const/let inside the handler body: every invocation has its own scope
Scope(i) == i

\* indices into userAgents, of which the first MaxAgents are drawn
MaxAgents == 2

UserAgents == 1..MaxAgents

\* basicScrape making its GET as userAgents[ua] while telling the agent apart
\* in what it returns
basicScrapeTaggingAgent(o, ua) ==
    IF ResponseOk(o) THEN Some(extractTextFromHtml(o.page) \o <<Fill(ua)>>) ELSE Null

\* basicScrape making its GET as userAgents[ua]: the agent goes into the
\* request headers and nowhere else
basicScrapeAs(o, ua) == basicScrape(o)

ConcRequests ==
    { Request("POST", "valid", HostGoogle, "undefined"),
      Request("POST", "valid", HostExample, "targeted"),
      Request("POST", "valid", HostExample, "basic"),
      Request("POST", "badurl", <<>>, "undefined") }

ConcOutcomes ==
    { Response(200, "OK", <<Fill(300)>>),
      Response(200, "OK", <<Fill(150)>>),
      Throw("AbortError", "") }

ConcInit ==
    /\ HandlersIdle
    /\ call = NoCall
    /\ inflight = [run   |-> [i \in Invocations |-> IdleRun],
                   scope |-> [i \in Invocations |-> NoScope]]
    /\ ClientIdle

\* what an invocation does with its response object
ConcSend(i, f, r) ==
    [inflight.run EXCEPT ![i].pc = "done", ![i].fetches = f, ![i].res = r]

\* entry to the first await (lines 246-297)
ConcReceive(i, r) ==
    /\ inflight.run[i].pc = "idle"
    /\ \E v \in {AdvancedValidate(r)} :
         inflight' =
           IF v # NoResponse
           THEN [inflight EXCEPT !.run[i] = [pc |-> "done", sent |-> r,
                                             fetches |-> <<>>, res |-> v]]
           ELSE [inflight EXCEPT !.run[i] = [pc |-> "fetch", sent |-> r,
                                             fetches |-> <<>>, res |-> NoResponse],
                                 !.scope[Scope(i)].req = r]
    /\ UNCHANGED <<handlerVars, call, clientVars>>

\* the first GET returns (lines 285-335)
ConcFetch(i, o, ua) ==
    /\ inflight.run[i].pc = "fetch"
    /\ \E r \in {inflight.scope[Scope(i)].req} :
       \E f \in {Append(inflight.run[i].fetches, [o |-> o, ua |-> ua])} :
       \E c \in {IF Strategy(r) = "basic" THEN basicScrapeAs(o, ua)
                 ELSE targetedScrape(o, r.host)} :
       \E m \in {IF Strategy(r) = "basic" THEN MethodBasic ELSE TargetedMethod(r.host)} :
         inflight' =
           [run   |-> IF Strategy(r) \notin {"basic", "targeted"} /\ NeedsFallback(c)
                      THEN [inflight.run EXCEPT ![i].pc = "fallback", ![i].fetches = f]
                      ELSE ConcSend(i, f, AdvancedRespond(c, m, r.host)),
            scope |-> [inflight.scope EXCEPT ![Scope(i)].content = c,
                                             ![Scope(i)].method = m]]
    /\ UNCHANGED <<handlerVars, call, clientVars>>

\* the GET of the fallback returns (lines 301-335)
ConcFallback(i, o, ua) ==
    /\ inflight.run[i].pc = "fallback"
    /\ \E r \in {inflight.scope[Scope(i)].req} :
       \E f \in {Append(inflight.run[i].fetches, [o |-> o, ua |-> ua])} :
       \E c \in {basicScrapeAs(o, ua)} :
         inflight' =
           [run   |-> ConcSend(i, f, AdvancedRespond(c, MethodBasicFallback, r.host)),
            scope |-> [inflight.scope EXCEPT ![Scope(i)].content = c,
                                             ![Scope(i)].method = MethodBasicFallback]]
    /\ UNCHANGED <<handlerVars, call, clientVars>>

ConcNext ==
    \/ \E i \in Invocations, r \in ConcRequests : ConcReceive(i, r)
    \/ \E i \in Invocations, o \in ConcOutcomes, ua \in UserAgents : ConcFetch(i, o, ua)
    \/ \E i \in Invocations, o \in ConcOutcomes, ua \in UserAgents : ConcFallback(i, o, ua)

SpecConcurrent == ConcInit /\ [][ConcNext]_vars

\* the response of the advanced handler to request r when it runs alone and
\* its GETs have the outcomes f, in order
RunAlone(r, f) ==
    IF AdvancedValidate(r) # NoResponse THEN AdvancedValidate(r)
    ELSE IF Strategy(r) = "basic"
    THEN AdvancedRespond(basicScrape(f[1]), MethodBasic, r.host)
    ELSE IF Strategy(r) # "targeted" /\ NeedsFallback(targetedScrape(f[1], r.host))
    THEN AdvancedRespond(basicScrape(f[2]), MethodBasicFallback, r.host)
    ELSE AdvancedRespond(targetedScrape(f[1], r.host), TargetedMethod(r.host), r.host)

PagesOf(i) ==
    [k \in 1..Len(inflight.run[i].fetches) |-> inflight.run[i].fetches[k].o]

\* C15: whatever the interleaving of two invocations of the advanced
\* handler, the response of each is the response the same request gets when
\* it runs alone with the same outcomes of its GETs.
C15_InvocationsIndependent ==
    \A i \in Invocations :
        inflight.run[i].pc = "done" =>
            inflight.run[i].res = RunAlone(inflight.run[i].sent, PagesOf(i))

\* C15 witness: the second invocation has succeeded for one site while the
\* first, for another site, is between its two GETs.
C15_Witness ==
    /\ inflight.run["first"].pc = "fallback"
    /\ inflight.run["second"].pc = "done"
    /\ inflight.run["second"].res.status = 200
    /\ inflight.run["second"].sent.host # inflight.run["first"].sent.host

\* RunAlone is the response of the one-request-at-a-time handler
RunAloneIsSequential ==
    (Responded /\ Advanced) => res = RunAlone(req, fetches)

-----------------------------------------------------------------------------
(* The normalizer, character by character *)

(* Here a text is a sequence of symbols, each standing for the characters   *)
(* written in it: a single character ("<", "&", ";", " ", "\n", ...), or a  *)
(* run of letters or of digits that the text holds as one word ("script",   *)
(* "amp", "60", "3C").  Two word symbols side by side form one longer word. *)
(* "U" is a character that is neither a word character, nor white space,    *)
(* nor one the patterns name.  Numerals stand only after "#" or "#x" in the *)
(* inputs drawn below.                                                      *)

WordSyms ==
    {"script", "SCRIPT", "style", "STYLE", "amp", "lt", "gt", "nbsp", "quot",
     "apos", "T", "a", "x", "60", "3C", "38", "39", "8", "9"}

ScriptNames == {"script", "SCRIPT"}    \* /.../i

StyleNames == {"style", "STYLE"}

Least(S) == CHOOSE x \in S : \A y \in S : x <= y

\* <\/NAME> stands at j
ClosesAt(s, j, names) ==
    /\ j + 3 <= Len(s)
    /\ s[j] = "<" /\ s[j + 1] = "/" /\ s[j + 2] \in names /\ s[j + 3] = ">"

\* the same pattern with its middle left out:  /<NAME\b[^<]*<\/NAME>/
OpensAtPlain(s, i, names) ==
    /\ i + 1 <= Len(s)
    /\ s[i] = "<" /\ s[i + 1] \in names
    /\ (i + 2 <= Len(s)) => s[i + 2] \notin WordSyms
    /\ \E j \in (i + 2)..Len(s) :
           ClosesAt(s, j, names) /\ \A k \in (i + 2)..(j - 1) : s[k] # "<"

\* /<NAME\b[^<]*(?:(?!<\/NAME>)<[^<]*)*<\/NAME>/ matches from i: the name
\* ends at a word boundary and a closing tag follows somewhere; the match
\* runs to the first closing tag
OpensAt(s, i, names) ==
    /\ i + 1 <= Len(s)
    /\ s[i] = "<" /\ s[i + 1] \in names
    /\ (i + 2 <= Len(s)) => s[i + 2] \notin WordSyms
    /\ \E j \in (i + 2)..Len(s) : ClosesAt(s, j, names)

\* .replace(/<NAME\b...<\/NAME>/gi, '')
RECURSIVE RemoveBlocks(_, _)
RemoveBlocks(s, names) ==
    LET opens == { i \in 1..Len(s) : OpensAt(s, i, names) }
    IN  IF opens = {} THEN s
        ELSE LET i == Least(opens)
                 j == Least({ k \in (i + 2)..Len(s) : ClosesAt(s, k, names) })
             IN  SubSeq(s, 1, i - 1)
                   \o RemoveBlocks(SubSeq(s, j + 4, Len(s)), names)

\* .replace(/<!--[\s\S]*?-->/g, '')
RECURSIVE RemoveComments(_)
RemoveComments(s) ==
    LET opens == { i \in 1..Len(s) :
                     /\ HasAt(s, <<"<", "!", "-", "-">>, i)
                     /\ \E j \in (i + 4)..Len(s) : HasAt(s, <<"-", "-", ">">>, j) }
    IN  IF opens = {} THEN s
        ELSE LET i == Least(opens)
                 j == Least({ k \in (i + 4)..Len(s) : HasAt(s, <<"-", "-", ">">>, k) })
             IN  SubSeq(s, 1, i - 1) \o RemoveComments(SubSeq(s, j + 3, Len(s)))

\* .replace(/<[^>]*>/g, ' ')
RECURSIVE ReplaceTags(_)
ReplaceTags(s) ==
    LET opens == { i \in 1..Len(s) :
                     s[i] = "<" /\ \E j \in (i + 1)..Len(s) : s[j] = ">" }
    IN  IF opens = {} THEN s
        ELSE LET i == Least(opens)
                 j == Least({ k \in (i + 1)..Len(s) : s[k] = ">" })
             IN  SubSeq(s, 1, i - 1) \o <<" ">> \o ReplaceTags(SubSeq(s, j + 1, Len(s)))

\* .replace(/PAT/g, REP) for a literal PAT
RECURSIVE ReplaceAll(_, _, _)
ReplaceAll(s, pat, rep) ==
    IF Len(s) < Len(pat) THEN s
    ELSE IF HasAt(s, pat, 1)
    THEN rep \o ReplaceAll(SubSeq(s, Len(pat) + 1, Len(s)), pat, rep)
    ELSE <<Head(s)>> \o ReplaceAll(Tail(s), pat, rep)

HexSyms == {"3C", "60", "38", "39", "8", "9"}

DecSyms == {"60", "38", "39", "8", "9"}

\* String.fromCharCode(parseInt(hex, 16))
HexChar(d) ==
    CASE d = "3C" -> "<"
      [] d = "38" -> "8"
      [] d = "39" -> "9"
      [] d = "9"  -> "\t"
      [] OTHER    -> "U"

\* String.fromCharCode(parseInt(dec, 10))
DecChar(d) ==
    CASE d = "60" -> "<"
      [] d = "38" -> "&"
      [] d = "39" -> "'"
      [] d = "9"  -> "\t"
      [] OTHER    -> "U"

\* the numerals from position i on
RECURSIVE Run(_, _, _)
Run(s, i, syms) ==
    IF i <= Len(s) /\ s[i] \in syms THEN 1 + Run(s, i + 1, syms) ELSE 0

\* .replace(/&#x([0-9A-Fa-f]+);/g, (match, hex) => String.fromCharCode(...))
RECURSIVE DecodeHex(_)
DecodeHex(s) ==
    IF s = <<>> THEN s
    ELSE LET n == Run(s, 4, HexSyms)
         IN  IF HasAt(s, <<"&", "#", "x">>, 1) /\ n >= 1
                /\ 4 + n <= Len(s) /\ s[4 + n] = ";"
             THEN <<IF n = 1 THEN HexChar(s[4]) ELSE "U">>
                    \o DecodeHex(SubSeq(s, 5 + n, Len(s)))
             ELSE <<Head(s)>> \o DecodeHex(Tail(s))

\* .replace(/&#(\d+);/g, (match, dec) => String.fromCharCode(...))
RECURSIVE DecodeDec(_)
DecodeDec(s) ==
    IF s = <<>> THEN s
    ELSE LET n == Run(s, 3, DecSyms)
         IN  IF HasAt(s, <<"&", "#">>, 1) /\ n >= 1
                /\ 3 + n <= Len(s) /\ s[3 + n] = ";"
             THEN <<IF n = 1 THEN DecChar(s[3]) ELSE "U">>
                    \o DecodeDec(SubSeq(s, 4 + n, Len(s)))
             ELSE <<Head(s)>> \o DecodeDec(Tail(s))

\* the six replacements every copy makes, in the order it makes them
DecodeCommon(s) ==
    ReplaceAll(
      ReplaceAll(
        ReplaceAll(
          ReplaceAll(
            ReplaceAll(
              ReplaceAll(s, <<"&", "nbsp", ";">>, <<" ">>),
              <<"&", "amp", ";">>, <<"&">>),
            <<"&", "lt", ";">>, <<"<">>),
          <<"&", "gt", ";">>, <<">">>),
        <<"&", "quot", ";">>, <<"\"">>),
      <<"&", "#", "39", ";">>, <<"'">>)

\* .replace(/&apos;/g, "'")
DecodeApos(s) == ReplaceAll(s, <<"&", "apos", ";">>, <<"'">>)

WhiteSpace == {" ", "\n", "\t"}

\* .replace(/\s+/g, ' '); the .replace(/\n\s*\n/g, '\n') after it finds no
\* newline left
RECURSIVE CollapseChars(_)
CollapseChars(s) ==
    IF s = <<>> THEN s
    ELSE IF Head(s) \in WhiteSpace
    THEN <<" ">> \o CollapseChars(SubSeq(s, 1 + Run(s, 1, WhiteSpace), Len(s)))
    ELSE <<Head(s)>> \o CollapseChars(Tail(s))

\* .trim()
RECURSIVE TrimChars(_)
TrimChars(s) ==
    IF s = <<>> THEN s
    ELSE IF Head(s) \in WhiteSpace THEN TrimChars(Tail(s))
    ELSE IF s[Len(s)] \in WhiteSpace THEN TrimChars(SubSeq(s, 1, Len(s) - 1))
    ELSE s

\* the three patterns that delete blocks, then the tags
RemoveMarkup(html) ==
    ReplaceTags(RemoveComments(RemoveBlocks(RemoveBlocks(html, ScriptNames),
                                            StyleNames)))

\* the normalizer cleaning the white space up before it decodes the entities
extractTextCleanupFirst(html) ==
    DecodeDec(DecodeHex(DecodeApos(DecodeCommon(
        TrimChars(CollapseChars(RemoveMarkup(html)))))))

\* extractTextFromHtml of scrape-advanced.ts
extractTextChars(html) ==
    TrimChars(CollapseChars(
        DecodeDec(DecodeHex(DecodeApos(DecodeCommon(RemoveMarkup(html)))))))

\* extractTextFromHtml of the scrape-job handler
extractTextCharsJob(html) ==
    TrimChars(CollapseChars(DecodeApos(DecodeCommon(RemoveMarkup(html)))))

\* extractTextFromHtml of the development proxy
extractTextCharsProxy(html) ==
    TrimChars(CollapseChars(DecodeCommon(RemoveMarkup(html))))

\* pages holding one script or style block: something before it, its opening
\* tag, its content (up to MaxBody characters, the letter T among them), its
\* closing tag in either case, something after it
MaxBody == 3

RECURSIVE TextsOver(_, _)
TextsOver(alphabet, n) ==
    IF n = 0 THEN { <<>> }
    ELSE TextsOver(alphabet, n - 1)
           \cup { <<c>> \o t : c \in alphabet, t \in TextsOver(alphabet, n - 1) }

Has(s, c) == \E i \in 1..Len(s) : s[i] = c

BlockBodies == { b \in TextsOver({"T", "<", ">", "\n"}, MaxBody) : Has(b, "T") }

BlockTags ==
    { [open |-> <<"<", "script", ">">>, names |-> ScriptNames],
      [open |-> <<"<", "SCRIPT", " ", "a", ">">>, names |-> ScriptNames],
      [open |-> <<"<", "style", "\n", ">">>, names |-> StyleNames] }

BlocksOf(tag) ==
    { tag.open \o body \o <<"<", "/", name, ">">> :
        body \in BlockBodies, name \in tag.names }

BlockInputs ==
    { pre \o block \o post :
        pre \in { <<>>, <<"a", " ">>, <<"<", "!", "-", "-">> },
        block \in UNION { BlocksOf(tag) : tag \in BlockTags },
        post \in { <<>>, <<"-", "-", ">", "a">> } }

\* texts holding entities: up to MaxPieces of these pieces, one after another
MaxPieces == 2

EntityPieces ==
    { <<"&", "nbsp", ";">>, <<"&", "amp", ";">>, <<"&", "lt", ";">>,
      <<"&", "gt", ";">>, <<"&", "quot", ";">>, <<"&", "#", "39", ";">>,
      <<"&", "apos", ";">>, <<"&", "#", "60", ";">>, <<"&", "#", "x", "3C", ";">>,
      <<"lt", ";">>, <<"a">>, <<" ">> }

RECURSIVE Joined(_, _)
Joined(pieces, n) ==
    IF n = 0 THEN { <<>> }
    ELSE Joined(pieces, n - 1)
           \cup { p \o t : p \in pieces, t \in Joined(pieces, n - 1) }

EntityInputs == Joined(EntityPieces, MaxPieces)

NormInit ==
    /\ HandlersIdle
    /\ inflight = <<>>
    /\ ClientIdle
    /\ call \in { [fn |-> "html", arg |-> h, out |-> <<>>] :
                    h \in BlockInputs \cup EntityInputs }

NormalizeAdvanced ==
    /\ call.fn = "html"
    /\ Apply("extractTextFromHtml", extractTextChars(call.arg))

NormalizeJob ==
    /\ call.fn = "html"
    /\ Apply("extractTextFromHtml (scrape-job)", extractTextCharsJob(call.arg))

NormalizeProxy ==
    /\ call.fn = "html"
    /\ Apply("extractTextFromHtml (dev-proxy)", extractTextCharsProxy(call.arg))

\* extractTextFromHtml applied to its own output, as targetedScrape does
NormalizeAgain ==
    /\ call.fn = "extractTextFromHtml"
    /\ call' = [fn |-> "again", arg |-> call.out, out |-> extractTextChars(call.out)]
    /\ UNCHANGED <<handlerVars, inflight, clientVars>>

NormNext == NormalizeAdvanced \/ NormalizeJob \/ NormalizeProxy \/ NormalizeAgain

SpecNormalize == NormInit /\ [][NormNext]_vars

Normalizers ==
    {"extractTextFromHtml", "extractTextFromHtml (scrape-job)",
     "extractTextFromHtml (dev-proxy)"}

EntityAtHead(s) ==
    CASE HasAt(s, <<"&", "nbsp", ";">>, 1)     -> [c |-> " ", n |-> 3]
      [] HasAt(s, <<"&", "amp", ";">>, 1)      -> [c |-> "&", n |-> 3]
      [] HasAt(s, <<"&", "lt", ";">>, 1)       -> [c |-> "<", n |-> 3]
      [] HasAt(s, <<"&", "gt", ";">>, 1)       -> [c |-> ">", n |-> 3]
      [] HasAt(s, <<"&", "quot", ";">>, 1)     -> [c |-> "\"", n |-> 3]
      [] HasAt(s, <<"&", "apos", ";">>, 1)     -> [c |-> "'", n |-> 3]
      [] HasAt(s, <<"&", "#", "x">>, 1) /\ Len(s) >= 5
           /\ s[4] \in HexSyms /\ s[5] = ";"   -> [c |-> HexChar(s[4]), n |-> 5]
      [] HasAt(s, <<"&", "#">>, 1) /\ Len(s) >= 4
           /\ s[3] \in DecSyms /\ s[4] = ";"   -> [c |-> DecChar(s[3]), n |-> 4]
      [] OTHER                                 -> [c |-> "", n |-> 0]

\* every entity replaced by its character, in one pass from left to right
RECURSIVE DecodeOnce(_)
DecodeOnce(s) ==
    IF s = <<>> THEN s
    ELSE IF EntityAtHead(s).n > 0
    THEN <<EntityAtHead(s).c>> \o DecodeOnce(SubSeq(s, EntityAtHead(s).n + 1, Len(s)))
    ELSE <<Head(s)>> \o DecodeOnce(Tail(s))

\* C18: on a text without tags, each copy of the normalizer returns the text
\* with every entity of the decode set replaced by its character, each
\* entity decoded once (white space then collapsed and trimmed): "&amp;lt;"
\* gives "&lt;".
C18_EachEntityDecodedOnce ==
    (call.fn \in Normalizers /\ ~Has(call.arg, "<") /\ ~Has(call.arg, ">")) =>
        call.out = TrimChars(CollapseChars(DecodeOnce(call.arg)))

\* the text holds a tag, or an entity the normalizer decodes
MarkupLeft(t) ==
    \/ \E i \in 1..Len(t) : t[i] = "<" /\ \E j \in (i + 1)..Len(t) : t[j] = ">"
    \/ \E i \in 1..Len(t) : EntityAtHead(SubSeq(t, i, Len(t))).n > 0

\* C19 as stated: normalizing the output of the normalizer changes nothing.
C19_Idempotent == call.fn = "again" => call.out = call.arg

\* C19, amended: normalizing the output of the normalizer changes nothing
\* when that output holds no "<" with a ">" after it and no entity of the
\* decode set.
C19_IdempotentWithoutMarkup ==
    (call.fn = "again" /\ ~MarkupLeft(call.arg)) => call.out = call.arg

\* C19 witness: an output in which a decoded ">" and a decoded "&" stand,
\* normalized again to itself.
C19_Witness ==
    /\ call.fn = "again"
    /\ call.arg = <<">", "&">>
    /\ call.out = call.arg

-----------------------------------------------------------------------------
(* The enhancers, character by character *)

(* Texts are sequences of symbols as above; every symbol that is not one of *)
(* the single characters of Punct is a whole word.  The patterns have flag  *)
(* i: words are compared in lower case.                                     *)

Punct ==
    {"<", ">", "/", "!", "-", "&", ";", "#", " ", "\n", "\t", "'", "\"", ":",
     ".", "U"}

Lower(w) ==
    CASE w = "Job"              -> "job"
      [] w = "Description"      -> "description"
      [] w = "Responsibilities" -> "responsibilities"
      [] w = "Requirements"     -> "requirements"
      [] w = "Benefits"         -> "benefits"
      [] w = "About"            -> "about"
      [] w = "Company"          -> "company"
      [] w = "Apply"            -> "apply"
      [] w = "Google"           -> "google"
      [] OTHER                  -> w

\* the pattern element e matches the symbol c ("ANY" is the pattern's `.`)
ElementMatches(e, c) ==
    IF e = "ANY" THEN c \in Punct \ {"\n"} ELSE Lower(c) = e

\* the pattern matches at the head of s, prev being the symbol before it
\* ("" at the start of the text); with \b on both sides when bounded
MatchesHere(s, prev, pat, bounded) ==
    /\ Len(pat) <= Len(s)
    /\ \A k \in 1..Len(pat) : ElementMatches(pat[k], s[k])
    /\ bounded => /\ prev = "" \/ prev \in Punct
                  /\ Len(pat) = Len(s) \/ s[Len(pat) + 1] \in Punct

\* .replace(/(alt1|alt2|...)/gi, rep)
RECURSIVE ReplaceRule(_, _, _, _, _)
ReplaceRule(s, prev, alts, rep, bounded) ==
    IF s = <<>> THEN s
    ELSE LET hits == { a \in 1..Len(alts) : MatchesHere(s, prev, alts[a], bounded) }
         IN  IF hits # {}
             THEN rep \o ReplaceRule(SubSeq(s, Len(alts[Least(hits)]) + 1, Len(s)),
                                     s[Len(alts[Least(hits)])], alts, rep, bounded)
             ELSE <<Head(s)>> \o ReplaceRule(Tail(s), Head(s), alts, rep, bounded)

\* the replacements of a list made one after the other, from rule k on
RECURSIVE ApplyRules(_, _, _, _)
ApplyRules(s, rules, k, bounded) ==
    IF k > Len(rules) THEN s
    ELSE ApplyRules(ReplaceRule(s, "", rules[k].alts, rules[k].rep, bounded),
                    rules, k + 1, bounded)

Deleted(phrase) == [alts |-> <<phrase>>, rep |-> <<>>]

\* the artifacts enhanceJobContent deletes
enhanceNoise ==
    << Deleted(<<"apply", " ", "now">>),
       Deleted(<<"share", " ", "this", " ", "job">>),
       Deleted(<<"save", " ", "job">>),
       Deleted(<<"back", " ", "to", " ", "search">>),
       Deleted(<<"view", " ", "all", " ", "jobs">>),
       Deleted(<<"cookie", " ", "policy">>),
       Deleted(<<"privacy", " ", "policy">>) >>

\* noisePatterns of cleanJobContent (its last pattern needs a copyright
\* sign, which no text here holds)
noisePatterns ==
    enhanceNoise \o << Deleted(<<"terms", " ", "of", " ", "service">>) >>

\* the five header replacements, in the order they are made
headerRules ==
    << [alts |-> << <<"job", " ", "description">>, <<"description">>, <<"overview">> >>,
        rep  |-> <<"\n", "\n", "Job", " ", "Description", ":">>],
       [alts |-> << <<"responsibilities">>, <<"duties">>,
                    <<"what", " ", "you", "ANY", "ll", " ", "do">> >>,
        rep  |-> <<"\n", "\n", "Responsibilities", ":">>],
       [alts |-> << <<"requirements">>, <<"qualifications">>,
                    <<"what", " ", "we", "ANY", "re", " ", "looking", " ", "for">> >>,
        rep  |-> <<"\n", "\n", "Requirements", ":">>],
       [alts |-> << <<"benefits">>, <<"perks">>, <<"what", " ", "we", " ", "offer">> >>,
        rep  |-> <<"\n", "\n", "Benefits", ":">>],
       [alts |-> << <<"about", " ", "us">>, <<"about", " ", "the", " ", "company">>,
                    <<"company", " ", "overview">> >>,
        rep  |-> <<"\n", "\n", "About", " ", "the", " ", "Company", ":">>] >>

\* enhanceJobContent(content, hostname)
enhanceJobContentChars(text, hostname) ==
    ApplyRules(
        ApplyRules(<<"Source", ":", " ">> \o hostname \o <<"\n", "\n">> \o text,
                   enhanceNoise, 1, TRUE),
        headerRules, 1, TRUE)

\* cleaned.toLowerCase().includes(company.toLowerCase()), for a company
\* whose name is one word
MentionsWord(s, company) == \E i \in 1..Len(s) : Lower(s[i]) = Lower(company)

\* .replace(/\n\s*\n\s*\n/g, '\n\n')
RECURSIVE SqueezeBlankLines(_)
SqueezeBlankLines(s) ==
    IF s = <<>> THEN s
    ELSE LET nl == { k \in 2..Run(s, 1, WhiteSpace) : s[k] = "\n" }
         IN  IF Head(s) = "\n" /\ Cardinality(nl) >= 2
             THEN <<"\n", "\n">>
                    \o SqueezeBlankLines(SubSeq(s, 1 + CHOOSE k \in nl : \A j \in nl : j <= k,
                                                Len(s)))
             ELSE <<Head(s)>> \o SqueezeBlankLines(Tail(s))

\* cleanJobContent(content, company)
cleanJobContentChars(text, company) ==
    LET cleaned == TrimChars(CollapseChars(text))
        named   == IF MentionsWord(cleaned, company) THEN cleaned
                   ELSE <<"Company", ":", " ", company, "\n", "\n">> \o cleaned
    IN  TrimChars(SqueezeBlankLines(
            ApplyRules(ApplyRules(named, noisePatterns, 1, FALSE),
                       headerRules, 1, TRUE)))

\* texts handed to the enhancers: up to MaxPhrases of these, one after another
MaxPhrases == 2

Phrases ==
    { <<"overview">>, <<"Job", " ", "Description">>, <<"company", " ", "overview">>,
      <<"benefits", ".">>, <<"Apply", " ", "now">>, <<"Google">>, <<"hiring">>,
      <<"example", ".", "org">>, <<" ">>, <<"\n">> }

EnhancerTexts == Joined(Phrases, MaxPhrases)

EnhancerHost == <<"example", ".", "org">>

EnhancerCompany == "Google"

EnhInit ==
    /\ HandlersIdle
    /\ inflight = <<>>
    /\ ClientIdle
    /\ call \in { [fn |-> "text", arg |-> t, out |-> <<>>] : t \in EnhancerTexts }

Enhance ==
    /\ call.fn = "text"
    /\ Apply("enhanceJobContent", enhanceJobContentChars(call.arg, EnhancerHost))

Clean ==
    /\ call.fn = "text"
    /\ Apply("cleanJobContent", cleanJobContentChars(call.arg, EnhancerCompany))

\* the enhancers applied to their own output
EnhanceAgain ==
    /\ call.fn = "enhanceJobContent"
    /\ call' = [fn |-> "enhanceJobContent again", arg |-> call.out,
                out |-> enhanceJobContentChars(call.out, EnhancerHost)]
    /\ UNCHANGED <<handlerVars, inflight, clientVars>>

CleanAgain ==
    /\ call.fn = "cleanJobContent"
    /\ call' = [fn |-> "cleanJobContent again", arg |-> call.out,
                out |-> cleanJobContentChars(call.out, EnhancerCompany)]
    /\ UNCHANGED <<handlerVars, inflight, clientVars>>

EnhNext == Enhance \/ Clean \/ EnhanceAgain \/ CleanAgain

SpecEnhance == EnhInit /\ [][EnhNext]_vars

\* C20: enhancing an enhanced text with the same hostname or company gives
\* the enhanced text back, for enhanceJobContent and for cleanJobContent.
C20_EnhancerIdempotent ==
    call.fn \in {"enhanceJobContent again", "cleanJobContent again"} =>
        call.out = call.arg

\* t stands somewhere in s, letter case set aside
MentionsSeq(s, t) ==
    \E i \in 1..(Len(s) + 1) :
        /\ i + Len(t) - 1 <= Len(s)
        /\ \A j \in 1..Len(t) : Lower(s[i + j - 1]) = Lower(t[j])

\* the provenance lines the two enhancers write
SourceBanner == <<"Source", ":", " ">> \o EnhancerHost

CompanyBanner == <<"Company", ":", " ", EnhancerCompany>>

\* how many provenance lines stand in s
Banners(s) ==
    Cardinality({ i \in 1..Len(s) : HasAt(s, SourceBanner, i) \/ HasAt(s, CompanyBanner, i) })

\* C21: a text that already names the hostname (for enhanceJobContent) or the
\* company (for cleanJobContent), in any letter case, is returned without a
\* provenance line, and no result of an enhancer carries two provenance lines.
C21_ProvenanceOnlyWhenAbsent ==
    /\ (call.fn = "enhanceJobContent" /\ MentionsSeq(call.arg, EnhancerHost)) =>
           Banners(call.out) = 0
    /\ (call.fn = "cleanJobContent" /\ MentionsWord(call.arg, EnhancerCompany)) =>
           Banners(call.out) = 0
    /\ call.fn \notin {"", "text"} => Banners(call.out) <= 1

\* the longest run of line breaks in s that starts at i
RECURSIVE NewlinesFrom(_, _)
NewlinesFrom(s, i) ==
    IF i <= Len(s) /\ s[i] = "\n" THEN 1 + NewlinesFrom(s, i + 1) ELSE 0

\* C22: no output of enhanceJobContent or cleanJobContent holds three or more
\* line breaks in a row, also when the text starts with a section-header
\* synonym right after the provenance line.
C22_NoTripleNewline ==
    call.fn \in {"enhanceJobContent", "cleanJobContent"} =>
        \A i \in 1..Len(call.out) : NewlinesFrom(call.out, i) < 3

-----------------------------------------------------------------------------
(* Selector-based extraction applied to raw markup *)

(* The extractors of api/scrape-advanced.ts (regular expressions) and the  *)
(* extractor of SpecializedScraper (DOM queries) are applied here to pages *)
(* as they come from the site, before any normalization.                   *)

Quote == <<"\"">>

\* the part of the selector between its first and its second double quote
QuotedValue(selector) ==
    LET q == { i \in 1..Len(selector) : selector[i] = "\"" }
    IN  IF Cardinality(q) < 2 THEN <<>>
        ELSE SubSeq(selector, Least(q) + 1, Least(q \ {Least(q)}) - 1)

\* Element.matches(selector) for the selector forms of the registry and of
\* the fallback list: .name, #name, [attr="value"], [attr*="part"], tagname
Selects(selector, tag) ==
    CASE Head(selector) = "." ->
           Includes(tag, <<"c","l","a","s","s","=">> \o Quote
                           \o Tail(selector) \o Quote)
      [] Head(selector) = "#" ->
           Includes(tag, <<"i","d","=">> \o Quote \o Tail(selector) \o Quote)
      [] Head(selector) = "[" /\ Includes(selector, <<"*","=">>) ->
           LET attr == SubSeq(selector, 2, IndexOf(selector, <<"*","=">>) - 1)
               from == IndexOf(tag, <<" ">> \o attr \o <<"=">> \o Quote)
           IN  /\ from # 0
               /\ Includes(SubSeq(tag, from + Len(attr) + 3, Len(tag) - 1),
                           QuotedValue(selector))
      [] Head(selector) = "[" ->
           Includes(tag, <<" ">> \o SubSeq(selector, 2, Len(selector) - 1))
      [] OTHER ->
           HasAt(tag, selector, 1)
             /\ (Len(tag) = Len(selector) \/ tag[Len(selector) + 1] = " ")

\* doc.querySelector(selector)?.textContent: the text inside the first
\* element the selector names (Null when there is none)
querySelector(html, selector) ==
    LET opens == { i \in 1..Len(html) :
                     html[i].k = "open" /\ Selects(selector, html[i].t) }
    IN  IF opens = {} THEN Null
        ELSE LET closes == { j \in (Least(opens) + 1)..Len(html) : html[j].k = "close" }
             IN  IF closes = {} THEN Null
                 ELSE Some(SubSeq(html, Least(opens) + 1, Least(closes) - 1))

\* the `for (const selector of ...)` loops of SpecializedScraper, from
\* selector i on: jobContent is overwritten by every element found, and the
\* loop stops at the first text longer than 200
RECURSIVE QueryLoop(_, _, _, _)
QueryLoop(html, selectors, i, jobContent) ==
    IF i > Len(selectors) THEN jobContent
    ELSE LET element == querySelector(html, selectors[i])
         IN  IF ~element.ok THEN QueryLoop(html, selectors, i + 1, jobContent)
             ELSE IF Length(element.v) > 200 THEN element.v
             ELSE QueryLoop(html, selectors, i + 1, element.v)

fallbackSelectors ==
    << <<"[","c","l","a","s","s","*","=","\"","j","o","b","-","d","e","s","c","r","i","p","t","i","o","n","\"","]">>,
       <<"[","c","l","a","s","s","*","=","\"","j","o","b","-","d","e","t","a","i","l","\"","]">>,
       <<"[","c","l","a","s","s","*","=","\"","j","o","b","-","c","o","n","t","e","n","t","\"","]">>,
       <<"[","c","l","a","s","s","*","=","\"","p","o","s","i","t","i","o","n","-","d","e","s","c","r","i","p","t","i","o","n","\"","]">>,
       <<"[","i","d","*","=","\"","j","o","b","-","d","e","s","c","r","i","p","t","i","o","n","\"","]">>,
       <<"[","d","a","t","a","-","t","e","s","t","i","d","*","=","\"","j","o","b","\"","]">>,
       <<"m","a","i","n">>,
       <<".","c","o","n","t","e","n","t">> >>

\* SpecializedScraper.extractSpecializedContent(html, url): the content
\* returned (Null for a null result)
ScraperExtractSpecialized(html, hostname) ==
    IF ConfigIndex(hostname) = 0 THEN Null
    ELSE LET config == SPECIALIZED_CONFIGS[ConfigIndex(hostname)]
             first  == QueryLoop(html, config.selectors, 1, <<>>)
             jobContent ==
                 IF Length(first) < 200
                 THEN QueryLoop(html, fallbackSelectors, 1, first)
                 ELSE first
         IN  IF Length(jobContent) < 100 THEN Null
             ELSE Some(cleanJobContent(jobContent, config.company))

\* pages: one element between a navigation bar and a footer, or two
\* elements one after the other
TagData == <<"d","i","v"," ","d","a","t","a","-","s","e","c","t","i","o","n","=","\"","d","e","s","c","r","i","p","t","i","o","n","\"">>
TagMain == <<"m","a","i","n">>

ExtractTags == {TagClass, TagId, TagData, TagMain}

ExtractPages ==
    { <<Nav(300), Open(t), Fill(n), Close, Nav(300)>> :
        t \in ExtractTags, n \in Around(FallbackBelow) \cup {500} }
    \cup { <<Open(TagData), Fill(n1), Close, Open(TagClass), Fill(n2), Close>> :
             n1 \in {150, 300}, n2 \in {150, 300} }
    \cup { <<Open(TagClass), Fill(n1), Close, Open(TagId), Fill(n2), Close>> :
             n1 \in {150, 300}, n2 \in {150, 300} }

ExtractHosts == {HostGoogle, HostIndeed, HostExample}

ExtractInit ==
    /\ HandlersIdle
    /\ inflight = <<>>
    /\ ClientIdle
    /\ call \in { [fn |-> "html", arg |-> [html |-> p, host |-> h], out |-> Null] :
                    p \in ExtractPages, h \in ExtractHosts }

\* extractSpecializedContent of the endpoint, on the raw page
ExtractSpecialized ==
    /\ call.fn = "html"
    /\ \E r \in { extractSpecializedContent(call.arg.html, call.arg.host) } :
           Apply("extractSpecializedContent", [ok |-> r.ok, v |-> r.v])

\* extractTargetedContent of the endpoint, for a host of siteSelectors
ExtractTargeted ==
    /\ call.fn = "html"
    /\ \E s \in { SiteIndex(call.arg.host) } \ {0} :
           \E r \in { extractTargetedContent(call.arg.html, siteSelectors[s].selectors) } :
               Apply("extractTargetedContent", r)

\* SpecializedScraper.extractSpecializedContent, on the raw page
ExtractScraper ==
    /\ call.fn = "html"
    /\ \E r \in { ScraperExtractSpecialized(call.arg.html, call.arg.host) } :
           Apply("SpecializedScraper", r)

ExtractNext == ExtractSpecialized \/ ExtractTargeted \/ ExtractScraper

SpecExtract == ExtractInit /\ [][ExtractNext]_vars

\* the selectors of a list whose element holds more than 200 characters of
\* normalized text
Accepted(html, selectors) ==
    { i \in 1..Len(selectors) :
        /\ querySelector(html, selectors[i]).ok
        /\ Length(extractTextFromHtml(querySelector(html, selectors[i]).v)) > 200 }

\* the normalized text of the first accepted selector's element
FirstAcceptedText(html, selectors) ==
    extractTextFromHtml(querySelector(html, selectors[Least(Accepted(html, selectors))]).v)

\* C23: when an element named by one of the configuration's selectors
\* (a class, an id or a data-attribute selector) holds more than 200
\* characters of normalized text, the extractor returns the text of the
\* first such selector in the listed order.
C23_FirstSubstantialSelectorWins ==
    /\ (call.fn = "extractSpecializedContent" /\ ConfigIndex(call.arg.host) # 0
          /\ Accepted(call.arg.html,
                      SPECIALIZED_CONFIGS[ConfigIndex(call.arg.host)].selectors) # {}) =>
           /\ call.out.ok
           /\ call.out.v =
                cleanJobContent(
                    FirstAcceptedText(call.arg.html,
                        SPECIALIZED_CONFIGS[ConfigIndex(call.arg.host)].selectors),
                    SPECIALIZED_CONFIGS[ConfigIndex(call.arg.host)].company)
    /\ (call.fn = "extractTargetedContent"
          /\ Accepted(call.arg.html,
                      siteSelectors[SiteIndex(call.arg.host)].selectors) # {}) =>
           /\ call.out.ok
           /\ call.out.v =
                FirstAcceptedText(call.arg.html,
                                  siteSelectors[SiteIndex(call.arg.host)].selectors)

\* no selector of the hostname's registry entry is accepted on the page, or
\* the hostname has no registry entry
NoConfiguredContent(html, hostname) ==
    \/ ConfigIndex(hostname) = 0
    \/ Accepted(html, SPECIALIZED_CONFIGS[ConfigIndex(hostname)].selectors) = {}

\* the text of the first accepted selector of the generic fallback list, as
\* it is and cleaned for the company of the hostname's registry entry
FallbackResults(html, hostname) ==
    { FirstAcceptedText(html, fallbackSelectors) }
      \cup (IF ConfigIndex(hostname) = 0 THEN {}
            ELSE { cleanJobContent(FirstAcceptedText(html, fallbackSelectors),
                                   SPECIALIZED_CONFIGS[ConfigIndex(hostname)].company) })

\* C24: when the hostname has no registry entry, or no selector of its entry
\* yields more than 200 characters, and an element named by the generic
\* fallback list holds more than 200 characters, the specialized extraction
\* (of the endpoint and of SpecializedScraper) returns that element's text,
\* not a null result.
C24_GenericFallbackTried ==
    (call.fn \in {"extractSpecializedContent", "SpecializedScraper"}
       /\ NoConfiguredContent(call.arg.html, call.arg.host)
       /\ Accepted(call.arg.html, fallbackSelectors) # {}) =>
        /\ call.out.ok
        /\ call.out.v \in FallbackResults(call.arg.html, call.arg.host)

\* the canonical heading of section k, without the blank line before it
Heading(k) == SubSeq(headerRules[k].rep, 3, Len(headerRules[k].rep))

\* how many times t stands in s
Count(s, t) == Cardinality({ i \in 1..Len(s) : HasAt(s, t, i) })

\* every synonym rewritten to the heading of its own section: the
\* replacement for "About the Company" made before the one whose synonym
\* "overview" is the second word of "company overview"
OwnSection(s) ==
    ApplyRules(s, <<headerRules[5], headerRules[1], headerRules[2],
                    headerRules[3], headerRules[4]>>, 1, TRUE)

\* C25: the text an enhancer returns holds, for each of the five sections,
\* one canonical heading of that section for every synonym of that section
\* in the text it was given; "company overview" gives "About the Company:".
C25_SynonymToOwnSection ==
    call.fn \in {"enhanceJobContent", "cleanJobContent"} =>
        \A k \in 1..Len(headerRules) :
            Count(call.out, Heading(k)) = Count(OwnSection(call.arg), Heading(k))

-----------------------------------------------------------------------------
\* the text holds no "<" and no entity: no tag, literal or written with
\* entities, and no script block
PlainText(s) ==
    \A i \in 1..Len(s) : s[i].k \notin {"open", "close", "eopen", "eclose", "script"}

\* C26: a targeted request whose page, once normalized, holds no "<" and no
\* entity is answered with the status and the content a basic request for
\* the same page is answered with: the selector steps of targetedScrape see
\* basicScrape's normalized text, in which they find nothing.
C26_TargetedEqualsBasicOnPlainText ==
    (Responded /\ Advanced /\ Strategy(req) = "targeted"
       /\ Len(fetches) = 1 /\ ResponseOk(fetches[1])
       /\ PlainText(extractTextFromHtml(fetches[1].page))) =>
        /\ res.status = AdvancedRespond(basicScrape(fetches[1]), MethodBasic, req.host).status
        /\ res.hasContent =
             AdvancedRespond(basicScrape(fetches[1]), MethodBasic, req.host).hasContent
        /\ res.content =
             AdvancedRespond(basicScrape(fetches[1]), MethodBasic, req.host).content

\* C26 witness: a targeted request for a registered site, whose page holds
\* an element in real markup that a selector of the site names, answered
\* with content
C26_Witness ==
    /\ Responded /\ Advanced /\ Strategy(req) = "targeted"
    /\ Len(fetches) = 1 /\ ResponseOk(fetches[1])
    /\ \E i \in 1..Len(fetches[1].page) : fetches[1].page[i].k = "open"
    /\ hasSpecializedScraper(req.host)
    /\ PlainText(extractTextFromHtml(fetches[1].page))
    /\ res.status = 200 /\ res.hasContent

-----------------------------------------------------------------------------
(* useSupabaseApplications (src/hooks/useSupabaseApplications.ts) *)

(* hook is a record: user ("none" for null), applications (the local list, *)
(* newest first), loading, error ("" for null), db (the signed-in user's   *)
(* rows of job_applications at the backend), pending (the backend calls    *)
(* that have been answered by the backend but whose `await` has not        *)
(* returned yet), nextId (the next generateId()), and last (the operation  *)
(* that took the last step, how it went, whether it changed the list).     *)
(* A setState call and the effect it triggers are one step.                *)

MaxApps    == 1     \* applications ever added
MaxPending == 1     \* backend calls awaited at the same time

Statuses == {"applied", "interview"}

Row(id, status) == [id |-> id, status |-> status]

NoRow == Row(0, "")

\* what a step records about itself: the operation, how it went, and
\* whether the step changed the local list
Step(op, outcome, changed) == [op |-> op, outcome |-> outcome, changed |-> changed]

\* an awaited backend call: the operation, its answer (`error` or not), the
\* id it names, the row it returns and, for a select, the rows it returns
Await(op, outcome, id, row, rows) ==
    [op |-> op, outcome |-> outcome, id |-> id, row |-> row, rows |-> rows]

\* .select('*').order('dateApplied', { ascending: false }): newest first
RECURSIVE Newest(_)
Newest(rows) ==
    IF rows = {} THEN <<>>
    ELSE LET r == CHOOSE x \in rows : \A y \in rows : y.id <= x.id
         IN  <<r>> \o Newest(rows \ {r})

Remove(s, i) == SubSeq(s, 1, i - 1) \o SubSeq(s, i + 1, Len(s))

RECURSIVE Without(_, _)
Without(apps, id) ==
    IF apps = <<>> THEN <<>>
    ELSE (IF Head(apps).id = id THEN <<>> ELSE <<Head(apps)>>) \o Without(Tail(apps), id)

\* the list changed before the answer of the backend is looked at
SettleOptimistic(p, apps) ==
    CASE p.op = "load"   -> p.rows
      [] p.op = "add"    -> <<p.row>> \o apps
      [] p.op = "update" -> [i \in DOMAIN apps |->
                               IF apps[i].id = p.id THEN Row(p.id, p.row.status) ELSE apps[i]]
      [] p.op = "delete" -> Without(apps, p.id)
      [] p.op = "clear"  -> <<>>

\* the local list after the await of p has returned: `if (error) throw error`
\* skips the setApplications call of the operation
Settle(p, apps) ==
    IF p.outcome = "error" THEN apps
    ELSE CASE p.op = "load"   -> p.rows
           [] p.op = "add"    -> <<p.row>> \o apps
           [] p.op = "update" -> [i \in DOMAIN apps |->
                                    IF apps[i].id = p.id THEN p.row ELSE apps[i]]
           [] p.op = "delete" -> Without(apps, p.id)
           [] p.op = "clear"  -> <<>>

\* the message of the catch block of an operation
Failed(op) ==
    CASE op = "load"   -> "Failed to load applications"
      [] op = "add"    -> "Failed to add application"
      [] op = "update" -> "Failed to update application"
      [] op = "delete" -> "Failed to delete application"
      [] op = "clear"  -> "Failed to clear applications"
      [] op = "signIn" -> "Failed to sign in"
      [] op = "signUp" -> "Failed to sign up"
      [] op = "signOut" -> "Failed to sign out"

\* the message of `if (!user) { setError(...); return }`
MustLogIn(op) ==
    CASE op = "add"    -> "You must be logged in to add applications"
      [] op = "update" -> "You must be logged in to update applications"
      [] op = "delete" -> "You must be logged in to delete applications"
      [] op = "clear"  -> "You must be logged in to clear applications"

HookStep(h) ==
    /\ hook' = h
    /\ UNCHANGED <<handlerVars, call, inflight, store, analyzer>>

HookInit ==
    /\ HandlersIdle
    /\ call = NoCall
    /\ inflight = <<>>
    /\ store = NoStore
    /\ analyzer = NoAnalyzer
    /\ \E rows \in {{}, {Row(1, "applied")}} :
           hook = [user |-> "none", applications |-> <<>>, loading |-> FALSE,
                   error |-> "", db |-> rows, pending |-> <<>>,
                   nextId |-> Cardinality(rows) + 1,
                   last |-> Step("mount", "ok", FALSE)]

\* loadApplications up to its await (lines 43-50); the select is answered
\* with the rows the backend holds now, or with an error
LoadCall(h, op, outcome) ==
    [h EXCEPT !.loading = TRUE, !.error = "",
              !.pending = Append(h.pending,
                              Await("load", outcome, 0, NoRow,
                                    IF outcome = "ok" THEN Newest(h.db) ELSE <<>>)),
              !.last = Step(op, "sent", FALSE)]

\* getSession() resolves or onAuthStateChange fires with a session: setUser,
\* then the effect of lines 32-40 calls loadApplications
AuthSignedIn(outcome) ==
    /\ hook.user = "none"
    /\ Len(hook.pending) < MaxPending
    /\ HookStep(LoadCall([hook EXCEPT !.user = "u1"], "signedIn", outcome))

\* onAuthStateChange fires without a session: setUser(null), then the effect
\* empties the list
AuthSignedOut ==
    /\ hook.user # "none"
    /\ HookStep([hook EXCEPT !.user = "none", !.applications = <<>>,
                             !.loading = FALSE,
                             !.last = Step("signedOut", "ok", hook.applications # <<>>)])

\* refreshApplications()
Refresh(outcome) ==
    /\ hook.user # "none"
    /\ Len(hook.pending) < MaxPending
    /\ HookStep(LoadCall(hook, "refresh", outcome))

\* an operation called with no user signed in (lines 67-70, 103-106, 136-139,
\* 168-171)
Refused(op) ==
    /\ hook.user = "none"
    /\ HookStep([hook EXCEPT !.error = MustLogIn(op),
                             !.last = Step(op, "refused", FALSE)])

\* the operation up to its await: setError(null), then the backend call p
Sent(p, db) ==
    /\ hook.user # "none"
    /\ Len(hook.pending) < MaxPending
    /\ HookStep([hook EXCEPT !.error = "", !.db = db,
                             !.pending = Append(hook.pending, p),
                             !.nextId = IF p.op = "add" THEN hook.nextId + 1
                                        ELSE hook.nextId,
                             !.last = Step(p.op, "sent", FALSE)])

\* addApplication(applicationData) (lines 66-88)
AddCall(status, outcome) ==
    \/ Refused("add")
    \/ /\ hook.nextId <= MaxApps
       /\ Sent(Await("add", outcome, hook.nextId, Row(hook.nextId, status), <<>>),
               IF outcome = "ok" THEN hook.db \cup {Row(hook.nextId, status)}
               ELSE hook.db)

\* updateApplication(id, updates) (lines 102-119); .single() answers with an
\* error when no row has the id
UpdateCall(id, status, outcome) ==
    \/ Refused("update")
    \/ /\ outcome = "ok" => \E r \in hook.db : r.id = id
       /\ Sent(Await("update", outcome, id, Row(id, status), <<>>),
               IF outcome = "ok"
               THEN { r \in hook.db : r.id # id } \cup {Row(id, status)}
               ELSE hook.db)

\* deleteApplication(id) (lines 135-146)
DeleteCall(id, outcome) ==
    \/ Refused("delete")
    \/ Sent(Await("delete", outcome, id, NoRow, <<>>),
            IF outcome = "ok" THEN { r \in hook.db : r.id # id } ELSE hook.db)

\* clearAllApplications() (lines 167-178)
ClearCall(outcome) ==
    \/ Refused("clear")
    \/ Sent(Await("clear", outcome, 0, NoRow, <<>>),
            IF outcome = "ok" THEN {} ELSE hook.db)

\* the await of the i-th pending call returns and the operation runs to its
\* end: setApplications on success, the catch block's setError on an error,
\* and for loadApplications the finally block
Returns(i) ==
    /\ i \in 1..Len(hook.pending)
    /\ HookStep([hook EXCEPT
           !.applications = Settle(hook.pending[i], hook.applications),
           !.error = IF hook.pending[i].outcome = "error"
                     THEN Failed(hook.pending[i].op) ELSE hook.error,
           !.loading = IF hook.pending[i].op = "load" THEN FALSE ELSE hook.loading,
           !.pending = Remove(hook.pending, i),
           !.last = Step(hook.pending[i].op, hook.pending[i].outcome,
                         Settle(hook.pending[i], hook.applications) # hook.applications)])

\* signInWithEmail, signUpWithEmail and signOut: setError(null), the auth
\* call, setError in the catch block (lines 190-238); the change of session
\* reaches the hook through onAuthStateChange
AuthCall(op, outcome) ==
    HookStep([hook EXCEPT !.error = IF outcome = "error" THEN Failed(op) ELSE "",
                          !.last = Step(op, outcome, FALSE)])

BackendOutcomes == {"ok", "error"}

HookNext ==
    \/ \E o \in BackendOutcomes : AuthSignedIn(o)
    \/ AuthSignedOut
    \/ \E o \in BackendOutcomes : Refresh(o)
    \/ \E s \in Statuses, o \in BackendOutcomes : AddCall(s, o)
    \/ \E id \in 1..MaxApps, s \in Statuses, o \in BackendOutcomes : UpdateCall(id, s, o)
    \/ \E id \in 1..MaxApps, o \in BackendOutcomes : DeleteCall(id, o)
    \/ \E o \in BackendOutcomes : ClearCall(o)
    \/ \E i \in 1..MaxPending : Returns(i)
    \/ \E op \in {"signIn", "signUp", "signOut"}, o \in BackendOutcomes : AuthCall(op, o)

SpecHook == HookInit /\ [][HookNext]_vars

\* C27: with no user signed in and no backend call pending, the local list
\* is empty.
C27_SignedOutListEmpty ==
    (hook.user = "none" /\ hook.pending = <<>>) => hook.applications = <<>>

Mutations == {"add", "update", "delete", "clear"}

\* C29: a step of add, update, delete or clear that was refused for want of
\* a user, or whose backend call answered with an error, leaves the local
\* list as it was and leaves an error message set; a step of these
\* operations changes the list only when the backend call has succeeded.
C29_FailureLeavesListUnchanged ==
    hook.last.op \in Mutations =>
        /\ hook.last.outcome \in {"refused", "error"} =>
               ~hook.last.changed /\ hook.error # ""
        /\ hook.last.changed => hook.last.outcome = "ok"

\* C29 witness: a delete of an application that stands in the local list
\* came back with an error, the list being what it was
C29_Witness ==
    /\ hook.last.op = "delete"
    /\ hook.last.outcome = "error"
    /\ hook.applications # <<>>
    /\ ~hook.last.changed
    /\ hook.error = Failed("delete")

-----------------------------------------------------------------------------
(* App (App.tsx) and APIServer (api server module) over localStorage *)

(* store is a record: storage (the list under the key 'job-applications'), *)
(* app (the `applications` state of App), server (APIServer.applications), *)
(* added (the ids added through App and not deleted through it since),     *)
(* deleted (the ids deleted through App), nextId (ids are timestamps: each *)
(* new one is larger than the ones before).  An application is its id and  *)
(* its job (company, position and date, which the duplicate test reads).   *)
(* A handler of App, the render it causes and the save effect of lines     *)
(* 39-41 are one step.                                                     *)

MaxStored == 3     \* applications ever created

Jobs == {"j1", "j2"}

Application(id, job) == [id |-> id, job |-> job]

RECURSIVE Filter(_, _)
Filter(apps, id) ==
    IF apps = <<>> THEN <<>>
    ELSE (IF Head(apps).id = id THEN <<>> ELSE <<Head(apps)>>) \o Filter(Tail(apps), id)

Ids(apps) == { apps[i].id : i \in DOMAIN apps }

StoreStep(s) ==
    /\ store' = s
    /\ UNCHANGED <<handlerVars, call, inflight, hook, analyzer>>

\* the page is loaded: APIServer's constructor and App's first effect both
\* read the stored list
StoreInit ==
    /\ HandlersIdle
    /\ call = NoCall
    /\ inflight = <<>>
    /\ hook = NoHook
    /\ analyzer = NoAnalyzer
    /\ \E stored \in {<<>>, <<Application(1, "j1")>>} :
           store = [storage |-> stored, app |-> stored, server |-> stored,
                    added |-> {}, deleted |-> {}, nextId |-> Len(stored) + 1]

\* App.handleAddApplication, then the save effect
AppAdd(job) ==
    /\ store.nextId <= MaxStored
    /\ StoreStep([store EXCEPT
           !.app     = Append(store.app, Application(store.nextId, job)),
           !.storage = Append(store.app, Application(store.nextId, job)),
           !.added   = store.added \cup {store.nextId},
           !.nextId  = store.nextId + 1])

\* App.handleUpdateApplication, then the save effect
AppUpdate(id, job) ==
    /\ id \in Ids(store.app)
    /\ \E updated \in { [i \in DOMAIN store.app |->
                          IF store.app[i].id = id THEN Application(id, job)
                          ELSE store.app[i]] } :
           StoreStep([store EXCEPT !.app = updated, !.storage = updated])

\* App.handleDeleteApplication with the confirm dialog accepted, then the
\* save effect
AppDelete(id) ==
    /\ id \in Ids(store.app)
    /\ StoreStep([store EXCEPT
           !.app     = Filter(store.app, id),
           !.storage = Filter(store.app, id),
           !.added   = store.added \ {id},
           !.deleted = store.deleted \cup {id}])

\* what App does with an 'applicationAdded' event (lines 20-30), then the
\* save effect when the list changed
Notified(s, a) ==
    IF a.id \in Ids(s.app) THEN s
    ELSE [s EXCEPT !.app = Append(s.app, a), !.storage = Append(s.app, a)]

\* APIServer.handleAddApplication (message ADD_APPLICATION): push, save,
\* dispatch 'applicationAdded'
ServerAdd(job) ==
    /\ store.nextId <= MaxStored
    /\ \E a \in { Application(store.nextId, job) } :
           StoreStep(Notified([store EXCEPT
                                  !.server  = Append(store.server, a),
                                  !.storage = Append(store.server, a),
                                  !.nextId  = store.nextId + 1], a))

\* APIServer.handleAPIRequest for POST /api/applications: an application of
\* a job the server's copy already holds is answered but not stored
ServerPost(job) ==
    /\ store.nextId <= MaxStored
    /\ \E a \in { Application(store.nextId, job) } :
           IF \E i \in DOMAIN store.server : store.server[i].job = job
           THEN StoreStep([store EXCEPT !.nextId = store.nextId + 1])
           ELSE StoreStep(Notified([store EXCEPT
                                       !.server  = Append(store.server, a),
                                       !.storage = Append(store.server, a),
                                       !.nextId  = store.nextId + 1], a))

\* APIServer.handleUpdateApplication (message UPDATE_APPLICATION)
ServerUpdate(id, job) ==
    /\ id \in 1..(store.nextId - 1)
    /\ IF id \in Ids(store.server)
       THEN \E updated \in { [i \in DOMAIN store.server |->
                               IF store.server[i].id = id THEN Application(id, job)
                               ELSE store.server[i]] } :
                StoreStep([store EXCEPT !.server = updated, !.storage = updated])
       ELSE StoreStep(store)

\* APIServer.handleDeleteApplication (message DELETE_APPLICATION)
ServerDelete(id) ==
    /\ id \in 1..(store.nextId - 1)
    /\ StoreStep([store EXCEPT !.server  = Filter(store.server, id),
                               !.storage = Filter(store.server, id)])

StoreNext ==
    \/ \E j \in Jobs : AppAdd(j)
    \/ \E id \in 1..MaxStored, j \in Jobs : AppUpdate(id, j)
    \/ \E id \in 1..MaxStored : AppDelete(id)
    \/ \E j \in Jobs : ServerAdd(j)
    \/ \E j \in Jobs : ServerPost(j)
    \/ \E id \in 1..MaxStored, j \in Jobs : ServerUpdate(id, j)
    \/ \E id \in 1..MaxStored : ServerDelete(id)

SpecStore == StoreInit /\ [][StoreNext]_vars

\* C28: the stored list holds every application that was added through App
\* and not deleted through it, and none that was deleted through App,
\* whatever APIServer has done in between.
C28_StorageKeepsAppChanges ==
    /\ store.added \subseteq Ids(store.storage)
    /\ store.deleted \cap Ids(store.storage) = {}

-----------------------------------------------------------------------------
(* JobAnalyzer.analyzeJobFromUrl (services/jobAnalyzer) *)

(* analyzer is a record: pc (where analyzeJobFromUrl stands), url, dev     *)
(* (isDevelopment), requests (the requests sent so far, in order: "health",*)
(* "advanced", "basic", "analysis"), advanced and basic (what the two      *)
(* fetch methods returned: "" before they return, "null", or the content), *)
(* analysed (the content handed to analyzeJobContent) and result (what     *)
(* analyzeJobFromUrl returned: "" while it runs).  Every await is a step.  *)

Contents == {"text", " "}

\* the url analyzeJobFromUrl is called with; it is passed on as it is
Urls == {"https://careers.google.com/jobs/1", "https://example.org/job", ""}

\* what a scrape endpoint can answer: fetch throws, or it resolves with
\* response.ok and a body that is a JSON object, the JSON value null, or no
\* JSON at all
Answer(kind, ok, json, success, text) ==
    [kind |-> kind, ok |-> ok, json |-> json, success |-> success, content |-> text]

Answers ==
    { Answer("response", TRUE, "object", s, c) :
        s \in BOOLEAN, c \in Contents \cup {""} }
    \cup { Answer("response", ok, j, FALSE, "") :
             ok \in BOOLEAN, j \in {"object", "null", "invalid"} }
    \cup { Answer("throw", FALSE, "invalid", FALSE, "") }

\* lines 234-262 and 290-315: the content the fetch method returns for an
\* answer, "null" when it throws into its catch block
ContentOf(a) ==
    IF a.kind = "throw" \/ ~a.ok \/ a.json # "object" THEN "null"
    ELSE IF ~a.success \/ a.content = "" THEN "null"
    ELSE a.content

\* the test taken as always true: the basic endpoint tried in every case
NoContentAlways(c) == TRUE

\* `!content` for string | null
NoContent(c) == c \in {"null", ""}

HealthOutcomes == {"ok", "not ok", "throw"}

AnalyzerStep(a) ==
    /\ analyzer' = a
    /\ UNCHANGED <<handlerVars, call, inflight, hook, store>>

AnalyzerInit ==
    /\ HandlersIdle
    /\ call = NoCall
    /\ inflight = <<>>
    /\ hook = NoHook
    /\ store = NoStore
    /\ \E dev \in BOOLEAN, url \in Urls :
           analyzer = [pc |-> IF dev THEN "advanced health" ELSE "advanced post",
                       dev |-> dev, url |-> url, requests |-> <<>>,
                       advanced |-> "", basic |-> "",
                       analysed |-> "", result |-> ""]

\* analyzeJobFromUrl after fetchWebpageContentAdvanced returned c (lines
\* 84-90): on to the basic method, or to the analysis
AfterAdvanced(a, c) ==
    [a EXCEPT !.advanced = c,
              !.pc = IF NoContent(c)
                     THEN (IF a.dev THEN "basic health" ELSE "basic post")
                     ELSE "analysis"]

\* analyzeJobFromUrl after fetchWebpageContent returned c (lines 90-101):
\* the throw of line 93 ends in the catch block's `return null`
AfterBasic(a, c) ==
    IF NoContent(c)
    THEN [a EXCEPT !.basic = c, !.pc = "done", !.result = "null"]
    ELSE [a EXCEPT !.basic = c, !.pc = "analysis"]

\* fetchWebpageContentAdvanced, development mode: the proxy's /health
\* (lines 217-230)
AdvancedHealth(h) ==
    /\ analyzer.pc = "advanced health"
    /\ \E a \in { [analyzer EXCEPT !.requests = Append(analyzer.requests, "health")] } :
           AnalyzerStep(IF h = "ok" THEN [a EXCEPT !.pc = "advanced post"]
                        ELSE AfterAdvanced(a, "null"))

\* fetchWebpageContentAdvanced: the POST to the advanced endpoint and what
\* comes of its answer (lines 234-262)
AdvancedPost(r) ==
    /\ analyzer.pc = "advanced post"
    /\ AnalyzerStep(AfterAdvanced(
           [analyzer EXCEPT !.requests = Append(analyzer.requests, "advanced")],
           ContentOf(r)))

\* fetchWebpageContent, development mode: the proxy's /health (lines 273-286)
BasicHealth(h) ==
    /\ analyzer.pc = "basic health"
    /\ \E a \in { [analyzer EXCEPT !.requests = Append(analyzer.requests, "health")] } :
           AnalyzerStep(IF h = "ok" THEN [a EXCEPT !.pc = "basic post"]
                        ELSE AfterBasic(a, "null"))

\* fetchWebpageContent: the POST to the basic endpoint (lines 290-315)
BasicPost(r) ==
    /\ analyzer.pc = "basic post"
    /\ AnalyzerStep(AfterBasic(
           [analyzer EXCEPT !.requests = Append(analyzer.requests, "basic")],
           ContentOf(r)))

\* analyzeJobContent(content): the model answers with a result, or fails
\* and the method's catch block returns null (lines 104-207)
Analyse(outcome) ==
    /\ analyzer.pc = "analysis"
    /\ AnalyzerStep([analyzer EXCEPT
           !.requests = Append(analyzer.requests, "analysis"),
           !.analysed = IF NoContent(analyzer.advanced) THEN analyzer.basic
                        ELSE analyzer.advanced,
           !.pc = "done",
           !.result = outcome])

AnalyzerNext ==
    \/ \E h \in HealthOutcomes : AdvancedHealth(h)
    \/ \E r \in Answers : AdvancedPost(r)
    \/ \E h \in HealthOutcomes : BasicHealth(h)
    \/ \E r \in Answers : BasicPost(r)
    \/ \E o \in {"result", "null"} : Analyse(o)

SpecAnalyzer == AnalyzerInit /\ [][AnalyzerNext]_vars

Requested(name) == \E i \in DOMAIN analyzer.requests : analyzer.requests[i] = name

=============================================================================
